---- MODULE Spec2Model ----
(***************************************************************************)
(* TruSweep: the sweep engine VoltageSweepManager.perform_sweep together   *)
(* with the two ports it drives (PowerSupplyController, UARTController).   *)
(*                                                                         *)
(* Voltages are Python floats in the program.  The model keeps binary      *)
(* round-to-nearest-even floating point but with MantissaBits significant  *)
(* bits instead of 53; a voltage is an integer number of quanta and is     *)
(* rounded to MantissaBits significant bits after every + and -.           *)
(* Durations are counted in polling slices of 0.1 s.                       *)
(***************************************************************************)
EXTENDS Integers, Sequences, FiniteSets, TLC

(***************************************************************************)
(* Bounds of the model.                                                    *)
(***************************************************************************)
MantissaBits == 5
ExpRange == 12
MaxIter == 6
MaxDwell == 3
MaxRx == 2
\* config_data['max_voltage'], an operator setting, in quanta
MaxVoltageSetting == 40

StartVoltages == {0, 5}
EndVoltages == {0, 5, 32}
StepSizes == {-1, 0, 1, 2, 11}
Durations == {0, MaxDwell}
Presets == <<1, 2, 3>>
\* float('nan'), which the entry fields accept
NaN == -1000
\* channel presets an operator may type: the usual ones, one with a preset
\* above max_voltage, one with a preset that is not a number
PresetChoices == {Presets, <<1, 2, MaxVoltageSetting + 4>>, <<NaN, 2, 3>>}
RxBytes == {"I", "O", "nl"}
\* the model follows a loop for at most this many iterations
MaxSteps == 2 * MaxIter
\* perform_sweep is called at most this many times on one engine
MaxRuns == 2

(***************************************************************************)
(* Program constants.                                                      *)
(***************************************************************************)
Channels == {1, 2, 3}
Percent == 100

RequiredKeys == <<"start_voltage", "end_voltage", "step_size", "channel">>
PresetKeys == <<"ch1_voltage", "ch2_voltage", "ch3_voltage">>
TimingKeys == {"increment_time", "off_time", "on_time"}
AllKeys == {RequiredKeys[i] : i \in 1..4} \cup {PresetKeys[i] : i \in 1..3}
             \cup TimingKeys

(***************************************************************************)
(* Floating point with MantissaBits significant bits.  A float is a pair   *)
(* <<m, e>> standing for m * 2^e.                                          *)
(***************************************************************************)
RECURSIVE Pow2(_)
Pow2(n) == IF n <= 0 THEN 1 ELSE 2 * Pow2(n - 1)

Abs(x) == IF x < 0 THEN -x ELSE x

Sign(x) == IF x < 0 THEN -1 ELSE 1

RoundHalfEven(num, den) ==
  LET q == num \div den
      r == num % den
  IN  IF 2 * r < den THEN q
      ELSE IF 2 * r > den THEN q + 1
      ELSE IF q % 2 = 0 THEN q ELSE q + 1

ScaleUp(x, e) == IF e > 0 THEN x * Pow2(e) ELSE x

FExp(num, den) ==
  CHOOSE e \in (-ExpRange)..ExpRange :
     /\ ScaleUp(num, -e) >= Pow2(MantissaBits - 1) * ScaleUp(den, e)
     /\ ScaleUp(num, -e) < Pow2(MantissaBits) * ScaleUp(den, e)

\* the float nearest to the rational num/den (den > 0)
FRound(num, den) ==
  IF num = 0 THEN <<0, 0>>
  ELSE LET e == FExp(Abs(num), den)
       IN  <<Sign(num) * RoundHalfEven(ScaleUp(Abs(num), -e), ScaleUp(den, e)), e>>

\* int(f): truncation toward zero
FTrunc(f) ==
  IF f[2] >= 0 THEN f[1] * Pow2(f[2])
  ELSE Sign(f[1]) * (Abs(f[1]) \div Pow2(-f[2]))

\* the float nearest to the integer k, as an integer
FRoundInt(k) ==
  LET f == FRound(k, 1)
  IN  IF f[2] >= 0 THEN f[1] * Pow2(f[2]) ELSE k

\* a < b on floats: every comparison with nan is False
FLess(a, b) == a # NaN /\ b # NaN /\ a < b

FAdd(a, b) == FRoundInt(a + b)

FSub(a, b) == FRoundInt(a - b)

FDiv(a, b) == FRound(Sign(b) * a, Abs(b))

FMulInt(f, k) ==
  IF f[2] >= 0 THEN FRound(f[1] * k * Pow2(f[2]), 1)
  ELSE FRound(f[1] * k, Pow2(-f[2]))

(***************************************************************************)
(* Sweep configurations.  keys is the set of keys present in the config    *)
(* dictionary; load_sweep_configuration stores the timing keys of the      *)
(* selected mode only, and a caller of perform_sweep may leave out any.    *)
(* arith is no key of the dictionary: it says how the three arithmetic     *)
(* expressions of perform_sweep are evaluated, "float" as the program      *)
(* does, or "exact" for the statements made about exact arithmetic.        *)
(***************************************************************************)
ModeTimingKeys(pcy, uc) ==
  IF pcy THEN (IF ~uc THEN {"off_time", "on_time"} ELSE {})
  ELSE IF ~uc THEN {"increment_time"} ELSE {}

FlagKeys == {"power_cycle", "uart_control"}

BaseKeys == (AllKeys \ TimingKeys) \cup FlagKeys

load_sweep_configuration ==
  { [start_voltage |-> s, end_voltage |-> e, step_size |-> st, channel |-> ch,
     power_cycle |-> pcy, uart_control |-> uc,
     increment_time |-> it, off_time |-> oft, on_time |-> ont,
     presets |-> p,
     keys |-> BaseKeys \cup ModeTimingKeys(pcy, uc),
     arith |-> "float"] :
       s \in StartVoltages, e \in EndVoltages, st \in StepSizes, ch \in Channels,
       pcy \in BOOLEAN, uc \in BOOLEAN,
       it \in Durations, oft \in Durations, ont \in Durations,
       p \in PresetChoices }

\* timing values of keys that are absent carry no information
Canonical(c) ==
  /\ ("increment_time" \notin c.keys => c.increment_time = 0)
  /\ ("off_time" \notin c.keys => c.off_time = 0)
  /\ ("on_time" \notin c.keys => c.on_time = 0)

\* the sweep needs at most MaxIter iterations
Bounded(c) ==
  \/ c.step_size = 0
  \/ Abs(c.end_voltage - c.start_voltage) < MaxIter * Abs(c.step_size)

Configs ==
  { c \in load_sweep_configuration :
      Canonical(c) /\ Bounded(c) /\ c.presets = Presets }

\* a configuration with at most one key left out
Drop(c, k) ==
  [c EXCEPT !.keys = @ \ {k},
            !.increment_time = IF k = "increment_time" THEN 0 ELSE @,
            !.off_time = IF k = "off_time" THEN 0 ELSE @,
            !.on_time = IF k = "on_time" THEN 0 ELSE @]

\* what the caller passes to perform_sweep when it keeps the durations of a
\* mode next to uart_control: a one-step sweep on channel 1
WithDurations ==
  { [c EXCEPT !.keys = @ \cup TimingKeys,
              !.increment_time = MaxDwell,
              !.off_time = MaxDwell,
              !.on_time = MaxDwell] :
      c \in { d \in Configs : /\ d.uart_control
                              /\ d.channel = 1
                              /\ d.start_voltage = 0
                              /\ d.end_voltage = 0
                              /\ d.step_size = 1 } }

SweepInputs ==
  Configs \cup { Drop(c, k) : c \in Configs, k \in AllKeys } \cup WithDurations

\* the sweeps with fixed durations on channel 1, and one whose step is less
\* than half the spacing of the floats at its start voltage
FixedDurationInputs ==
  { c \in Configs : ~c.uart_control /\ c.channel = 1 } \cup
  { [c EXCEPT !.start_voltage = Pow2(MantissaBits),
              !.end_voltage = Pow2(MantissaBits) + 2,
              !.step_size = 1] :
      c \in { d \in Configs : /\ ~d.uart_control /\ ~d.power_cycle
                              /\ d.channel = 1
                              /\ d.start_voltage = 0 /\ d.end_voltage = 5
                              /\ d.step_size = 1
                              /\ d.increment_time = 0 } }

\* the sweeps on channel 1, evaluated in exact arithmetic
ExactInputs ==
  { [c EXCEPT !.arith = "exact"] : c \in { d \in Configs : d.channel = 1 } }

(***************************************************************************)
(* State.                                                                  *)
(***************************************************************************)
VARIABLES
  config,           \* the dictionary passed to perform_sweep
  pc,               \* position of the worker inside perform_sweep
  idx,              \* channel of the next pre-flight / post-loop call
  stop_event,       \* the cancellation token
  current_voltage, step_size, total_steps, current_step,
  data_log,         \* VoltageSweepManager.data_log
  gui_queue,        \* everything put on the event queue, in order
  calls,            \* Command Port calls made, in order, with their outcome
  outputs,          \* instrument: which channel outputs are on
  now,              \* time.time(), in slices
  sleepLeft,        \* slices until end_time in _sleep_with_stop_check
  waitCtx,          \* which wait the worker is in: dwell, off, on, gated
  expired,          \* time.time() - start_time > timeout in the UART wait
  rxbuf,            \* bytes received by the serial port and not yet read
  rxCount,          \* number of bytes received so far
  rxRead,           \* what the Signal Port returned so far, and to which wait
  hist,             \* history: how the loop ended, where the token was set
  lock,             \* holder of VoltageSweepManager.data_log_lock, or "free"
  snapshot,         \* what a concurrent reader copied under the lock
  wpc,              \* position of voltage_sweep_thread (main.py)
  aliased,          \* TruSweepApp.data_log is the engine's list (line 347)
  save_i,           \* save_data_log: index of the next entry to write
  tmpfile,          \* the NamedTemporaryFile of save_data_log
  target,           \* data_log.csv
  drained,          \* number of queue messages process_queue has handled
  run_button,       \* state of the Run button
  show_plot         \* the plot window is open (show_plot_var)

vars == <<config, pc, idx, stop_event, current_voltage, step_size, total_steps,
          current_step, data_log, gui_queue, calls, outputs, now, sleepLeft,
          waitCtx, expired, rxbuf, rxCount, rxRead, hist, lock, snapshot, wpc, aliased,
          save_i, tmpfile, target, drained, run_button, show_plot>>

app == <<wpc, aliased, drained, run_button, show_plot>>
files == <<save_i, tmpfile, target>>

locals == <<current_voltage, step_size, total_steps, current_step>>
timing == <<now, sleepLeft, waitCtx, expired>>
serial == <<rxbuf, rxCount, rxRead>>

\* a file: whether it exists, and its rows
NoFile == [exists |-> FALSE, rows |-> <<>>]

\* hist.stop: the wait the worker was in when the token was set (a sleep or a
\* UART wait, with the number of calls and iterations made by then and whether
\* the UART timeout had elapsed), and the slices slept since; "call" when
\* the token was set before the first statement of perform_sweep
NoStop ==
  [ctx |-> "none", ncalls |-> 0, step |-> 0, slices |-> 0, uart |-> FALSE,
   expired |-> FALSE]

\* hist of the first perform_sweep call on an engine: how the loop ended,
\* where the token was set, which phase failed, the number of the call,
\* where the worker thread was when Run was clicked once more, and the
\* connections of main.py's two controllers ("none", "open" or "closed")
FirstCall ==
  [exit |-> "none", stop |-> NoStop, failed |-> "none", run |-> 1,
   restart |-> "none", psu |-> "none", uart |-> "none"]

\* a VoltageSweepManager as constructed, perform_sweep(config) just called by
\* a caller other than main.py (wpc = "direct")
Constructed ==
  /\ pc = "validate"
  /\ idx = 1
  /\ stop_event = FALSE
  /\ current_voltage = 0
  /\ step_size = 0
  /\ total_steps = 0
  /\ current_step = 0
  /\ data_log = <<>>
  /\ gui_queue = <<>>
  /\ calls = <<>>
  /\ outputs = [c \in Channels |-> FALSE]
  /\ now = 0
  /\ sleepLeft = 0
  /\ waitCtx = "none"
  /\ expired = FALSE
  /\ rxbuf = <<>>
  /\ rxCount = 0
  /\ rxRead = <<>>
  /\ hist = FirstCall
  /\ lock = "free"
  /\ snapshot = <<>>
  /\ wpc = "direct"
  /\ aliased = FALSE
  /\ save_i = 1
  /\ tmpfile = NoFile
  /\ target = NoFile
  /\ drained = 0
  /\ run_button = "normal"
  /\ show_plot = FALSE

Init == config \in SweepInputs /\ Constructed

(***************************************************************************)
(* Helpers of perform_sweep.                                               *)
(***************************************************************************)
Get(k, default) == IF k \in config.keys THEN config[k] ELSE default

FAbs(f) == <<Abs(f[1]), f[2]>>

\* int(abs((end_voltage - start_voltage) / step_size)) + (1 if ... else 1),
\* for the voltages and steps of the configurations
TotalStepsTable ==
  [s \in StartVoltages \cup {Pow2(MantissaBits)},
   e \in EndVoltages \cup {Pow2(MantissaBits) + 2},
   st \in StepSizes \ {0} |->
     FTrunc(FAbs(FDiv(FSub(e, s), st))) + 1]

\* mutant: the quotient alone
TotalSteps_NoPlusOne(c) ==
  IF c.arith = "exact"
  THEN Abs(c.end_voltage - c.start_voltage) \div Abs(c.step_size)
  ELSE TotalStepsTable[c.start_voltage, c.end_voltage, c.step_size] - 1

TotalSteps(c) ==
  IF c.arith = "exact"
  THEN Abs(c.end_voltage - c.start_voltage) \div Abs(c.step_size) + 1
  ELSE TotalStepsTable[c.start_voltage, c.end_voltage, c.step_size]

\* int((current_step / total_steps) * 100)
ProgressTable ==
  [n \in 1..(2 * MaxIter), t \in 1..(2 * MaxIter) |->
     FTrunc(FMulInt(FDiv(n, t), Percent))]

Progress(n, t) ==
  IF config.arith = "exact" THEN (n * Percent) \div t ELSE ProgressTable[n, t]

\* mutant: the downward branch leaves a positive step as it is
NormalizedStep_NoFlip(c) == c.step_size

\* the step after the direction checks of lines 85-99
NormalizedStep(c) ==
  IF c.start_voltage > c.end_voltage /\ c.step_size >= 0
  THEN -c.step_size ELSE c.step_size

\* mutant: the upward branch accepts a non-positive step
ValidationError_UpAccepted(c) ==
  IF \E i \in 1..4 : RequiredKeys[i] \notin c.keys THEN "missing_key"
  ELSE IF \E i \in 1..3 : PresetKeys[i] \notin c.keys THEN "key_error"
  ELSE IF c.step_size = 0 THEN "zero_division"
  ELSE "none"

\* mutant: 'channel' is left out of required_keys, so its absence surfaces
\* as the KeyError of line 71
ValidationError_ChannelUnchecked(c) ==
  IF \E i \in 1..3 : RequiredKeys[i] \notin c.keys THEN "missing_key"
  ELSE IF \E i \in 1..3 : PresetKeys[i] \notin c.keys THEN "key_error"
  ELSE IF RequiredKeys[4] \notin c.keys THEN "key_error"
  ELSE IF c.step_size = 0 THEN "zero_division"
  ELSE IF c.start_voltage < c.end_voltage /\ c.step_size <= 0 THEN "step_sign"
  ELSE "none"

\* mutant: the timing keys of the selected mode are required keys
ValidationError_TimingRequired(c) ==
  IF \E i \in 1..4 : RequiredKeys[i] \notin c.keys THEN "missing_key"
  ELSE IF ModeTimingKeys(c.power_cycle, c.uart_control) \ c.keys # {}
  THEN "missing_key"
  ELSE IF \E i \in 1..3 : PresetKeys[i] \notin c.keys THEN "key_error"
  ELSE IF c.step_size = 0 THEN "zero_division"
  ELSE IF c.start_voltage < c.end_voltage /\ c.step_size <= 0 THEN "step_sign"
  ELSE "none"

\* the exception raised before the first port call, or "none"
ValidationError(c) ==
  IF \E i \in 1..4 : RequiredKeys[i] \notin c.keys THEN "missing_key"
  ELSE IF \E i \in 1..3 : PresetKeys[i] \notin c.keys THEN "key_error"
  ELSE IF c.step_size = 0 THEN "zero_division"
  ELSE IF c.start_voltage < c.end_voltage /\ c.step_size <= 0 THEN "step_sign"
  ELSE "none"

voltage_condition(cv) ==
  IF config.start_voltage < config.end_voltage THEN cv <= config.end_voltage
  ELSE IF config.start_voltage > config.end_voltage THEN cv >= config.end_voltage
  ELSE current_step = 0

\* main.py attaches a UARTController exactly when uart_control is selected
UartAttached == config.uart_control

UseUart == Get("uart_control", FALSE) /\ UartAttached

\* mutant: a transport error of a port call is not handled
Raise_TransportPropagates(kind, phase) ==
  IF kind = "transport"
  THEN /\ pc' = "raised"
       /\ hist' = [hist EXCEPT !.failed = phase]
       /\ UNCHANGED gui_queue
  ELSE /\ gui_queue' = Append(gui_queue, <<"error", kind>>)
       /\ pc' = "returned"
       /\ hist' = [hist EXCEPT !.failed = phase]

\* except Exception: put ('error', ...) and return
Raise(kind, phase) ==
  /\ gui_queue' = Append(gui_queue, <<"error", kind>>)
  /\ pc' = "returned"
  /\ hist' = [hist EXCEPT !.failed = phase]

(***************************************************************************)
(* Command Port (PowerSupplyController).                                   *)
(***************************************************************************)
\* set_voltage raises ValueError outside [0, max_voltage]; every write to the
\* instrument may raise a transport error
Outcomes(op, v) ==
  IF op = "set_voltage" /\ (FLess(v, 0) \/ FLess(MaxVoltageSetting, v))
  THEN {"range"}
  ELSE {"ok", "transport"}

Call(op, ch, v, r) == [op |-> op, ch |-> ch, v |-> v, r |-> r]

Written(outs, op, ch) ==
  IF op = "output_on" THEN [outs EXCEPT ![ch] = TRUE]
  ELSE IF op = "output_off" THEN [outs EXCEPT ![ch] = FALSE]
  ELSE outs

(***************************************************************************)
(* Waits.                                                                  *)
(***************************************************************************)
EnterSleep(ctx, duration) ==
  /\ pc' = "sleep_head"
  /\ waitCtx' = ctx
  /\ sleepLeft' = duration
  /\ UNCHANGED <<now, expired>>

EnterUart(ctx) ==
  /\ pc' = "uart_head"
  /\ waitCtx' = ctx
  /\ expired' = FALSE
  /\ UNCHANGED <<now, sleepLeft>>

\* mutant: the off-phase wait expects the one-character token "O"
Expected_OneCharOff(ctx) == IF ctx = "off" THEN {"O"} ELSE {"I"}

Expected(ctx) == IF ctx = "off" THEN {"ON"} ELSE {"I"}

\* mutant: the off-phase wait is followed by the next step at once
LeaveWait_SkipOn(ctx) == pc' = "advance"

\* mutant: a wait ended by the token goes on to the loop head
LeaveWait_StopSkipsOn(ctx) ==
  pc' = IF ctx = "off" /\ ~stop_event THEN "output_on" ELSE "advance"

LeaveWait(ctx) == pc' = IF ctx = "off" THEN "output_on" ELSE "advance"

\* uart.read().decode().strip()
Decode(b) == IF b = "nl" THEN "" ELSE b

(***************************************************************************)
(* perform_sweep.                                                          *)
(***************************************************************************)
Validate ==
  /\ pc = "validate"
  /\ IF ValidationError(config) # "none"
     THEN /\ Raise(ValidationError(config), "validate")
          /\ UNCHANGED <<locals, idx>>
     ELSE /\ total_steps' = TotalSteps(config)
          /\ current_step' = 0
          /\ current_voltage' = config.start_voltage
          /\ step_size' = NormalizedStep(config)
          /\ pc' = "preflight"
          /\ idx' = 1
          /\ UNCHANGED <<gui_queue, hist>>
  /\ UNCHANGED <<app, files, lock, snapshot, config, stop_event, data_log, calls, outputs, timing, serial>>

\* mutant: the outputs are energized before the presets are applied
Preflight_OnFirst ==
  /\ pc = "preflight"
  /\ LET op == IF idx <= 3 THEN "output_on" ELSE "set_voltage"
         ch == IF idx <= 3 THEN idx ELSE idx - 3
         v  == IF idx <= 3 THEN 0 ELSE config.presets[idx - 3]
     IN \E r \in Outcomes(op, v) :
          /\ calls' = Append(calls, Call(op, ch, v, r))
          /\ IF r = "ok"
             THEN /\ outputs' = Written(outputs, op, ch)
                  /\ idx' = IF idx < 6 THEN idx + 1 ELSE 1
                  /\ pc' = IF idx < 6 THEN "preflight" ELSE "loop_head"
                  /\ UNCHANGED <<gui_queue, hist>>
             ELSE /\ Raise(r, "preflight")
                  /\ UNCHANGED <<outputs, idx>>
  /\ UNCHANGED <<app, files, lock, snapshot, config, stop_event, locals,
                 data_log, timing, serial>>

\* mutant: a failing pre-flight call is reported and followed by the cleanup
Preflight_CleansUp ==
  /\ pc = "preflight"
  /\ LET op == IF idx <= 3 THEN "set_voltage" ELSE "output_on"
         ch == IF idx <= 3 THEN idx ELSE idx - 3
         v  == IF idx <= 3 THEN config.presets[idx] ELSE 0
     IN \E r \in Outcomes(op, v) :
          /\ calls' = Append(calls, Call(op, ch, v, r))
          /\ IF r = "ok"
             THEN /\ outputs' = Written(outputs, op, ch)
                  /\ idx' = IF idx < 6 THEN idx + 1 ELSE 1
                  /\ pc' = IF idx < 6 THEN "preflight" ELSE "loop_head"
                  /\ UNCHANGED <<gui_queue, hist>>
             ELSE /\ gui_queue' = Append(gui_queue, <<"error", r>>)
                  /\ hist' = [hist EXCEPT !.failed = "preflight",
                                           !.exit = "stop"]
                  /\ pc' = "post"
                  /\ idx' = 1
                  /\ UNCHANGED outputs
  /\ UNCHANGED <<app, files, lock, snapshot, config, stop_event, locals,
                 data_log, timing, serial>>

\* set_voltage(1..3, preset) then output_on(1..3)
Preflight ==
  /\ pc = "preflight"
  /\ LET op == IF idx <= 3 THEN "set_voltage" ELSE "output_on"
         ch == IF idx <= 3 THEN idx ELSE idx - 3
         v  == IF idx <= 3 THEN config.presets[idx] ELSE 0
     IN \E r \in Outcomes(op, v) :
          /\ calls' = Append(calls, Call(op, ch, v, r))
          /\ IF r = "ok"
             THEN /\ outputs' = Written(outputs, op, ch)
                  /\ idx' = IF idx < 6 THEN idx + 1 ELSE 1
                  /\ pc' = IF idx < 6 THEN "preflight" ELSE "loop_head"
                  /\ UNCHANGED <<gui_queue, hist>>
             ELSE /\ Raise(r, "preflight")
                  /\ UNCHANGED <<outputs, idx>>
  /\ UNCHANGED <<app, files, lock, snapshot, config, stop_event, locals, data_log, timing, serial>>

\* mutant: the loop exit jumps over the three output_off calls
LoopHead_SkipCleanup ==
  /\ pc = "loop_head"
  /\ current_step < MaxSteps
  /\ IF voltage_condition(current_voltage) /\ ~stop_event
     THEN /\ pc' = "set_voltage"
          /\ UNCHANGED <<idx, hist>>
     ELSE /\ pc' = "put_final"
          /\ idx' = 1
          /\ hist' = [hist EXCEPT !.exit =
                        IF voltage_condition(current_voltage) THEN "stop"
                        ELSE "condition"]
  /\ UNCHANGED <<app, files, lock, snapshot, config, stop_event, locals, data_log, gui_queue, calls,
                 outputs, timing, serial>>

\* mutant: the token is looked at only after the first iteration
LoopHead_DoWhile ==
  /\ pc = "loop_head"
  /\ current_step < MaxSteps
  /\ IF voltage_condition(current_voltage) /\ (~stop_event \/ current_step = 0)
     THEN /\ pc' = "set_voltage"
          /\ UNCHANGED <<idx, hist>>
     ELSE /\ pc' = "post"
          /\ idx' = 1
          /\ hist' = [hist EXCEPT !.exit =
                        IF voltage_condition(current_voltage) THEN "stop"
                        ELSE "condition"]
  /\ UNCHANGED <<app, files, lock, snapshot, config, stop_event, locals,
                 data_log, gui_queue, calls, outputs, timing, serial>>

\* while voltage_condition(current_voltage) and not self.stop_event.is_set()
LoopHead ==
  /\ pc = "loop_head"
  /\ current_step < MaxSteps
  /\ IF voltage_condition(current_voltage) /\ ~stop_event
     THEN /\ pc' = "set_voltage"
          /\ UNCHANGED <<idx, hist>>
     ELSE /\ pc' = "post"
          /\ idx' = 1
          /\ hist' = [hist EXCEPT !.exit =
                        IF voltage_condition(current_voltage) THEN "stop"
                        ELSE "condition"]
  /\ UNCHANGED <<app, files, lock, snapshot, config, stop_event, locals, data_log, gui_queue, calls,
                 outputs, timing, serial>>

SetVoltage ==
  /\ pc = "set_voltage"
  /\ \E r \in Outcomes("set_voltage", current_voltage) :
       /\ calls' = Append(calls, Call("set_voltage", config.channel,
                                      current_voltage, r))
       /\ IF r = "ok"
          THEN /\ pc' = "log"
               /\ UNCHANGED <<gui_queue, hist>>
          ELSE Raise(r, "loop")
  /\ UNCHANGED <<app, files, lock, snapshot, config, idx, stop_event, locals, data_log, outputs, timing,
                 serial>>

\* timestamp = time.time(); with self.data_log_lock: (acquire)
AcquireLogLock ==
  /\ pc = "log"
  /\ lock = "free"
  /\ lock' = "worker"
  /\ pc' = "log_locked"
  /\ UNCHANGED <<app, files, snapshot, config, idx, stop_event, locals, data_log,
                 gui_queue, calls, outputs, timing, serial, hist>>

\* mutant: the with block does not end after the append
LogSample_HoldsLock ==
  /\ pc = "log_locked"
  /\ data_log' = Append(data_log,
                        [timestamp |-> now, voltage |-> current_voltage])
  /\ pc' = "put_data"
  /\ UNCHANGED <<app, files, lock, snapshot, config, idx, stop_event, locals,
                 gui_queue, calls, outputs, timing, serial, hist>>

\* mutant: the sample is put in front of the log
LogSample_Prepend ==
  /\ pc = "log_locked"
  /\ data_log' = <<[timestamp |-> now, voltage |-> current_voltage]>>
                    \o data_log
  /\ lock' = "free"
  /\ pc' = "put_data"
  /\ UNCHANGED <<app, files, snapshot, config, idx, stop_event, locals,
                 gui_queue, calls, outputs, timing, serial, hist>>

\* self.data_log.append({...}) and the release at the end of the with block
LogSample ==
  /\ pc = "log_locked"
  /\ data_log' = Append(data_log,
                        [timestamp |-> now, voltage |-> current_voltage])
  /\ lock' = "free"
  /\ pc' = "put_data"
  /\ UNCHANGED <<app, files, snapshot, config, idx, stop_event, locals, gui_queue, calls, outputs,
                 timing, serial, hist>>

\* self.gui_queue.put(('data_log', {'timestamp': ..., 'voltage': ...}))
PutData ==
  /\ pc = "put_data"
  /\ gui_queue' = Append(gui_queue,
                         <<"data_log", [timestamp |-> now,
                                        voltage |-> current_voltage]>>)
  /\ pc' = "put_progress"
  /\ UNCHANGED <<app, files, lock, snapshot, config, idx, stop_event, locals, data_log, calls, outputs,
                 timing, serial, hist>>

\* mutant: the UART gate is tested before the power cycle
PutProgress_UartFirst ==
  /\ pc = "put_progress"
  /\ current_step' = current_step + 1
  /\ gui_queue' = Append(gui_queue,
                         <<"progress", Progress(current_step + 1, total_steps)>>)
  /\ IF UseUart THEN EnterUart("gated")
     ELSE IF Get("power_cycle", FALSE)
     THEN pc' = "output_off" /\ UNCHANGED timing
     ELSE EnterSleep("dwell", Get("increment_time", 0))
  /\ UNCHANGED <<app, files, lock, snapshot, config, idx, stop_event,
                 current_voltage, step_size, total_steps, data_log, calls,
                 outputs, serial, hist>>

\* current_step += 1, the progress event, then the mode dispatch
PutProgress ==
  /\ pc = "put_progress"
  /\ current_step' = current_step + 1
  /\ gui_queue' = Append(gui_queue,
                         <<"progress", Progress(current_step + 1, total_steps)>>)
  /\ IF Get("power_cycle", FALSE)
     THEN pc' = "output_off" /\ UNCHANGED timing
     ELSE IF UseUart THEN EnterUart("gated")
     ELSE EnterSleep("dwell", Get("increment_time", 0))
  /\ UNCHANGED <<app, files, lock, snapshot, config, idx, stop_event, current_voltage, step_size,
                 total_steps, data_log, calls, outputs, serial, hist>>

\* power cycle: self.psu.output_off(channel), then the off-phase wait
OutputOffSwept ==
  /\ pc = "output_off"
  /\ \E r \in Outcomes("output_off", 0) :
       /\ calls' = Append(calls, Call("output_off", config.channel, 0, r))
       /\ IF r = "ok"
          THEN /\ outputs' = Written(outputs, "output_off", config.channel)
               /\ IF UseUart THEN EnterUart("off")
                  ELSE EnterSleep("off", Get("off_time", 0))
               /\ UNCHANGED <<gui_queue, hist>>
          ELSE /\ Raise(r, "loop")
               /\ UNCHANGED <<outputs, timing>>
  /\ UNCHANGED <<app, files, lock, snapshot, config, idx, stop_event, locals, data_log, serial>>

\* power cycle: self.psu.output_on(channel), then the on-phase wait
OutputOnSwept ==
  /\ pc = "output_on"
  /\ \E r \in Outcomes("output_on", 0) :
       /\ calls' = Append(calls, Call("output_on", config.channel, 0, r))
       /\ IF r = "ok"
          THEN /\ outputs' = Written(outputs, "output_on", config.channel)
               /\ IF UseUart THEN EnterUart("on")
                  ELSE EnterSleep("on", Get("on_time", 0))
               /\ UNCHANGED <<gui_queue, hist>>
          ELSE /\ Raise(r, "loop")
               /\ UNCHANGED <<outputs, timing>>
  /\ UNCHANGED <<app, files, lock, snapshot, config, idx, stop_event, locals, data_log, serial>>

\* mutant: the sleep does not look at the token
SleepHead_NoStopCheck ==
  /\ pc = "sleep_head"
  /\ IF sleepLeft > 0
     THEN pc' = "sleeping"
     ELSE LeaveWait(waitCtx)
  /\ UNCHANGED <<app, files, lock, snapshot, config, idx, stop_event, locals, data_log, gui_queue, calls,
                 outputs, timing, serial, hist>>

\* _sleep_with_stop_check: while time.time() < end_time: if stop: break
SleepHead ==
  /\ pc = "sleep_head"
  /\ IF sleepLeft > 0 /\ ~stop_event
     THEN pc' = "sleeping"
     ELSE LeaveWait(waitCtx)
  /\ UNCHANGED <<app, files, lock, snapshot, config, idx, stop_event, locals, data_log, gui_queue, calls,
                 outputs, timing, serial, hist>>

\* time.sleep(min(sleep_interval, end_time - time.time())) returns
SleepEnd ==
  /\ pc = "sleeping"
  /\ sleepLeft' = sleepLeft - 1
  /\ now' = now + 1
  /\ pc' = "sleep_head"
  /\ hist' = IF stop_event
             THEN [hist EXCEPT !.stop.slices = @ + 1]
             ELSE hist
  /\ UNCHANGED <<app, files, lock, snapshot, config, idx, stop_event, locals, data_log, gui_queue, calls,
                 outputs, waitCtx, expired, serial>>

\* mutant: the wait that the token ends consumes the token
UartHead_ClearsToken ==
  /\ pc = "uart_head"
  /\ IF stop_event
     THEN /\ LeaveWait(waitCtx)
          /\ stop_event' = FALSE
          /\ UNCHANGED <<gui_queue, idx, hist>>
     ELSE IF expired
     THEN /\ gui_queue' = Append(gui_queue, <<"error", "uart_timeout">>)
          /\ pc' = "post"
          /\ idx' = 1
          /\ hist' = [hist EXCEPT !.exit = "timeout"]
          /\ UNCHANGED stop_event
     ELSE /\ pc' = "uart_read"
          /\ UNCHANGED <<gui_queue, idx, hist, stop_event>>
  /\ UNCHANGED <<app, files, lock, snapshot, config, locals, data_log, calls,
                 outputs, timing, serial>>

\* mutant: the timeout is looked at before the token
UartHead_TimeoutFirst ==
  /\ pc = "uart_head"
  /\ IF expired
     THEN /\ gui_queue' = Append(gui_queue, <<"error", "uart_timeout">>)
          /\ pc' = "post"
          /\ idx' = 1
          /\ hist' = [hist EXCEPT !.exit = "timeout"]
     ELSE IF stop_event
     THEN /\ LeaveWait(waitCtx)
          /\ UNCHANGED <<gui_queue, idx, hist>>
     ELSE /\ pc' = "uart_read"
          /\ UNCHANGED <<gui_queue, idx, hist>>
  /\ UNCHANGED <<app, files, lock, snapshot, config, stop_event, locals,
                 data_log, calls, outputs, timing, serial>>

\* wait_for_uart_signal: the loop head (stop check, then the timeout check);
\* a TimeoutError is caught in perform_sweep, reported, and breaks the loop
UartHead ==
  /\ pc = "uart_head"
  /\ IF stop_event
     THEN /\ LeaveWait(waitCtx)
          /\ UNCHANGED <<gui_queue, idx, hist>>
     ELSE IF expired
     THEN /\ gui_queue' = Append(gui_queue, <<"error", "uart_timeout">>)
          /\ pc' = "post"
          /\ idx' = 1
          /\ hist' = [hist EXCEPT !.exit = "timeout"]
     ELSE /\ pc' = "uart_read"
          /\ UNCHANGED <<gui_queue, idx, hist>>
  /\ UNCHANGED <<app, files, lock, snapshot, config, stop_event, locals, data_log, calls, outputs, timing,
                 serial>>

\* one return of the Signal Port, in the wait it was made in
Returned(token) == [ctx |-> waitCtx, step |-> current_step, token |-> token]

\* mutant: the wait returns whatever token comes first
UartRead_AnyToken ==
  /\ pc = "uart_read"
  /\ IF stop_event
     THEN /\ pc' = "uart_head"
          /\ rxRead' = Append(rxRead, Returned("None"))
          /\ UNCHANGED rxbuf
     ELSE /\ rxbuf # <<>>
          /\ rxbuf' = Tail(rxbuf)
          /\ rxRead' = Append(rxRead, Returned(Decode(Head(rxbuf))))
          /\ LeaveWait(waitCtx)
  /\ UNCHANGED <<app, files, lock, snapshot, config, idx, stop_event, locals,
                 data_log, gui_queue, calls, outputs, timing, rxCount, hist>>

\* mutant: the elapsed time is looked at again when the read has returned
UartRead_ChecksDeadline ==
  /\ pc = "uart_read"
  /\ IF stop_event
     THEN /\ pc' = "uart_head"
          /\ rxRead' = Append(rxRead, Returned("None"))
          /\ UNCHANGED rxbuf
     ELSE /\ rxbuf # <<>>
          /\ rxbuf' = Tail(rxbuf)
          /\ rxRead' = Append(rxRead, Returned(Decode(Head(rxbuf))))
          /\ IF Decode(Head(rxbuf)) \in Expected(waitCtx) /\ ~expired
             THEN LeaveWait(waitCtx)
             ELSE pc' = "uart_head"
  /\ UNCHANGED <<app, files, lock, snapshot, config, idx, stop_event, locals,
                 data_log, gui_queue, calls, outputs, timing, rxCount, hist>>

\* UARTController.wait_for_signal returns: None once the token is set, else
\* the next received byte, decoded and stripped; with no byte waiting it spins.
\* wait_for_uart_signal returns the signal if it is an expected one
UartRead ==
  /\ pc = "uart_read"
  /\ IF stop_event
     THEN /\ pc' = "uart_head"
          /\ rxRead' = Append(rxRead, Returned("None"))
          /\ UNCHANGED rxbuf
     ELSE /\ rxbuf # <<>>
          /\ rxbuf' = Tail(rxbuf)
          /\ rxRead' = Append(rxRead, Returned(Decode(Head(rxbuf))))
          /\ IF Decode(Head(rxbuf)) \in Expected(waitCtx)
             THEN LeaveWait(waitCtx)
             ELSE pc' = "uart_head"
  /\ UNCHANGED <<app, files, lock, snapshot, config, idx, stop_event, locals, data_log, gui_queue, calls,
                 outputs, timing, rxCount, hist>>

\* current_voltage += step_size
Advance ==
  /\ pc = "advance"
  /\ current_voltage' = IF config.arith = "exact"
                        THEN current_voltage + step_size
                        ELSE FAdd(current_voltage, step_size)
  /\ pc' = "loop_head"
  /\ UNCHANGED <<app, files, lock, snapshot, config, idx, stop_event, step_size, total_steps, current_step,
                 data_log, gui_queue, calls, outputs, timing, serial, hist>>

\* self.psu.output_off(1); output_off(2); output_off(3)
PostLoop ==
  /\ pc = "post"
  /\ \E r \in Outcomes("output_off", 0) :
       /\ calls' = Append(calls, Call("output_off", idx, 0, r))
       /\ IF r = "ok"
          THEN /\ outputs' = Written(outputs, "output_off", idx)
               /\ idx' = IF idx < 3 THEN idx + 1 ELSE 1
               /\ pc' = IF idx < 3 THEN "post" ELSE "put_final"
               /\ UNCHANGED <<gui_queue, hist>>
          ELSE /\ Raise(r, "post")
               /\ UNCHANGED <<outputs, idx>>
  /\ UNCHANGED <<app, files, lock, snapshot, config, stop_event, locals, data_log, timing, serial>>

PutFinalProgress ==
  /\ pc = "put_final"
  /\ gui_queue' = Append(gui_queue, <<"progress", Percent>>)
  /\ pc' = "put_done"
  /\ UNCHANGED <<app, files, lock, snapshot, config, idx, stop_event, locals, data_log, calls, outputs,
                 timing, serial, hist>>

PutDone ==
  /\ pc = "put_done"
  /\ gui_queue' = Append(gui_queue, <<"done">>)
  /\ pc' = "returned"
  /\ UNCHANGED <<app, files, lock, snapshot, config, idx, stop_event, locals, data_log, calls, outputs,
                 timing, serial, hist>>

(***************************************************************************)
(* Environment: the operator, the serial line, the clock.                  *)
(***************************************************************************)
\* stop_voltage_sweep: self.stop_event.set()
Stop ==
  /\ pc # "returned"
  /\ ~stop_event
  /\ stop_event' = TRUE
  /\ hist' = [hist EXCEPT !.stop =
                IF pc \in {"sleep_head", "sleeping", "uart_head", "uart_read"}
                THEN [ctx |-> waitCtx, ncalls |-> Len(calls),
                      step |-> current_step, slices |-> 0,
                      uart |-> pc \in {"uart_head", "uart_read"},
                      expired |-> expired]
                ELSE IF pc = "validate"
                THEN [NoStop EXCEPT !.ctx = "call"]
                ELSE [NoStop EXCEPT !.ctx = "elsewhere"]]
  /\ UNCHANGED <<app, files, lock, snapshot, config, pc, idx, locals, data_log, gui_queue, calls, outputs,
                 timing, serial>>

\* a byte arrives on the serial line
Receive ==
  /\ UartAttached
  /\ pc \notin {"not_called", "returned"}
  /\ rxCount < MaxRx
  /\ \E b \in RxBytes : rxbuf' = Append(rxbuf, b)
  /\ rxCount' = rxCount + 1
  /\ UNCHANGED <<rxRead, app, files, lock, snapshot, config, pc, idx, stop_event, locals, data_log, gui_queue,
                 calls, outputs, timing, hist>>

\* more than timeout seconds have passed since start_time
TimePasses ==
  /\ pc \in {"uart_head", "uart_read"}
  /\ ~expired
  /\ expired' = TRUE
  /\ UNCHANGED <<app, files, lock, snapshot, config, pc, idx, stop_event, locals, data_log, gui_queue,
                 calls, outputs, now, sleepLeft, waitCtx, serial, hist>>

Worker ==
  \/ Validate \/ Preflight \/ LoopHead \/ SetVoltage \/ AcquireLogLock
  \/ LogSample \/ PutData
  \/ PutProgress \/ OutputOffSwept \/ OutputOnSwept \/ SleepHead \/ SleepEnd
  \/ UartHead \/ UartRead \/ Advance \/ PostLoop \/ PutFinalProgress \/ PutDone

Next == Worker \/ Stop \/ Receive \/ TimePasses

Spec == Init /\ [][Next]_vars

\* perform_sweep on its own: no operator, no serial line
FixedDurationWorker ==
  \/ Validate \/ Preflight \/ LoopHead \/ SetVoltage \/ AcquireLogLock
  \/ LogSample \/ PutData \/ PutProgress \/ OutputOffSwept \/ OutputOnSwept
  \/ SleepHead \/ SleepEnd \/ Advance \/ PostLoop \/ PutFinalProgress \/ PutDone

FixedDurationInit == config \in FixedDurationInputs /\ Constructed

\* the worker thread keeps running
FixedDurationSpec ==
  /\ FixedDurationInit
  /\ [][FixedDurationWorker]_vars
  /\ WF_vars(FixedDurationWorker)

\* the caller calls perform_sweep(config) again on the same engine: the
\* locals are those of the new call, the attributes of the engine stay
perform_sweep ==
  /\ pc = "returned"
  /\ wpc = "direct"
  /\ hist.run < MaxRuns
  /\ pc' = "validate"
  /\ idx' = 1
  /\ hist' = [FirstCall EXCEPT !.run = hist.run + 1]
  /\ UNCHANGED <<app, files, lock, snapshot, config, stop_event, locals,
                 data_log, gui_queue, calls, outputs, timing, serial>>

\* one engine used for several sweeps with fixed durations
ReuseSpec ==
  FixedDurationInit /\ [][FixedDurationWorker \/ perform_sweep]_vars

ExactInit == config \in ExactInputs /\ Constructed

ExactSpec == ExactInit /\ [][Next]_vars

\* Liveness is checked on the sweeps of one or two steps on channel 1.
LiveInputs ==
  { c \in Configs : /\ c.channel = 1
                    /\ c.start_voltage = 0
                    /\ c.end_voltage = 0
                    /\ c.step_size \in {0, 1} }

LiveInit == Init /\ config \in LiveInputs

\* the worker thread keeps running and the clock keeps advancing; the
\* operator and the serial line owe nothing
FairSpec ==
  /\ LiveInit
  /\ [][Next]_vars
  /\ WF_vars(Worker)
  /\ WF_vars(TimePasses)

(***************************************************************************)
(* A concurrent reader of the DataLog: the lock-protected read of          *)
(* save_data_log called from another thread while the sweep runs.          *)
(***************************************************************************)
\* mutant: the reader enters without looking at the lock
ReaderAcquire_NoLock ==
  /\ wpc = "direct"
  /\ lock # "reader"
  /\ lock' = "reader"
  /\ UNCHANGED <<app, files, snapshot, config, pc, idx, stop_event, locals,
                 data_log, gui_queue, calls, outputs, timing, serial, hist>>

\* with self.data_log_lock: (acquire)
ReaderAcquire ==
  /\ wpc = "direct"
  /\ lock = "free"
  /\ lock' = "reader"
  /\ UNCHANGED <<app, files, snapshot, config, pc, idx, stop_event, locals,
                 data_log, gui_queue, calls, outputs, timing, serial, hist>>

\* for entry in self.data_log: ... and the release
ReaderSnapshot ==
  /\ lock = "reader"
  /\ snapshot' = data_log
  /\ lock' = "free"
  /\ UNCHANGED <<app, files, config, pc, idx, stop_event, locals, data_log,
                 gui_queue, calls, outputs, timing, serial, hist>>

\* one sweep of every mode, the preset choices, and a zero step
SmallInputs ==
  { c \in load_sweep_configuration :
      /\ Canonical(c)
      /\ c.channel = 1
      /\ \/ /\ ~c.power_cycle /\ ~c.uart_control /\ c.presets = Presets
            /\ c.start_voltage = 0 /\ c.end_voltage = 5
            /\ c.step_size = 2 /\ c.increment_time = MaxDwell
         \/ /\ ~c.power_cycle /\ ~c.uart_control
            /\ c.start_voltage = 0 /\ c.end_voltage = 0
            /\ c.step_size = 1 /\ c.increment_time = 0
         \/ /\ c.power_cycle /\ ~c.uart_control /\ c.presets = Presets
            /\ c.start_voltage = 5 /\ c.end_voltage = 0 /\ c.step_size = 11
            /\ c.off_time = 0 /\ c.on_time = MaxDwell
         \/ /\ ~c.power_cycle /\ c.uart_control /\ c.presets = Presets
            /\ c.start_voltage = 0 /\ c.end_voltage = 0 /\ c.step_size = 1
         \/ /\ ~c.power_cycle /\ ~c.uart_control /\ c.presets = Presets
            /\ c.start_voltage = 0 /\ c.end_voltage = 5
            /\ c.step_size = 0 /\ c.increment_time = 0 }

ReaderInit == Init /\ config \in SmallInputs

ReaderNext == Next \/ ReaderAcquire \/ ReaderSnapshot

ReaderSpec == ReaderInit /\ [][ReaderNext]_vars

(***************************************************************************)
(* save_data_log('data_log.csv'): the rows go to a temporary file in the   *)
(* directory of the target, which then replaces the target.                *)
(***************************************************************************)
Header == <<"timestamp", "voltage">>

\* the data_log.csv a previous run left behind
OldFile ==
  [exists |-> TRUE,
   rows |-> <<Header, << <<"7", ".", "5">>, <<"7", ".", "5">> >> >>]

DigitChars == <<"0", "1", "2", "3", "4", "5", "6", "7", "8", "9">>

RECURSIVE Digits(_)
Digits(n) ==
  IF n < 10 THEN <<DigitChars[n + 1]>>
  ELSE Append(Digits(n \div 10), DigitChars[(n % 10) + 1])

\* str(x) of a float holding an integral value, as csv.DictWriter writes it
FloatStr(x) ==
  (IF x < 0 THEN <<"-">> ELSE <<>>) \o Digits(Abs(x)) \o <<".", "0">>

DigitValue(ch) == CHOOSE d \in 0..9 : DigitChars[d + 1] = ch

RECURSIVE Magnitude(_)
Magnitude(chars) ==
  IF chars = <<>> THEN 0
  ELSE 10 * Magnitude(SubSeq(chars, 1, Len(chars) - 1))
         + DigitValue(chars[Len(chars)])

\* float(text): the nearest float to the decimal numeral
ParseFloat(text) ==
  LET neg == text[1] = "-"
      body == IF neg THEN Tail(text) ELSE text
      dot == CHOOSE i \in 1..Len(body) : body[i] = "."
      whole == Magnitude(SubSeq(body, 1, dot - 1))
  IN  FRoundInt(IF neg THEN -whole ELSE whole)

\* mutant: the two columns are written in the other order
Row_Swapped(entry) == <<FloatStr(entry.voltage), FloatStr(entry.timestamp)>>

\* writer.writerow(entry)
Row(entry) == <<FloatStr(entry.timestamp), FloatStr(entry.voltage)>>

\* csv.DictReader over a file, the fields converted with float()
ReadBack(rows) ==
  [i \in 1..(Len(rows) - 1) |->
     [timestamp |-> ParseFloat(rows[i + 1][1]),
      voltage |-> ParseFloat(rows[i + 1][2])]]

SaveStates == {"save_open", "save_header", "save_lock", "save_rows",
               "save_replace"}

\* tempfile.NamedTemporaryFile('w', dir=dir_name, delete=False)
SaveOpen ==
  /\ wpc = "save_open"
  /\ \E r \in {"ok", "io_error"} :
       IF r = "ok"
       THEN /\ tmpfile' = [exists |-> TRUE, rows |-> <<>>]
            /\ wpc' = "save_header"
       ELSE /\ wpc' = "except"
            /\ UNCHANGED tmpfile
  /\ UNCHANGED <<aliased, drained, run_button, show_plot, save_i, target, lock,
                 snapshot, config, pc, idx, stop_event, locals, data_log,
                 gui_queue, calls, outputs, timing, serial, hist>>

\* mutant: the header is written to the target itself
SaveHeader_InPlace ==
  /\ wpc = "save_header"
  /\ target' = [exists |-> TRUE, rows |-> <<Header>>]
  /\ tmpfile' = [tmpfile EXCEPT !.rows = <<Header>>]
  /\ wpc' = "save_lock"
  /\ UNCHANGED <<aliased, drained, run_button, show_plot, save_i, lock,
                 snapshot, config, pc, idx, stop_event, locals, data_log,
                 gui_queue, calls, outputs, timing, serial, hist>>

\* writer.writeheader()
SaveHeader ==
  /\ wpc = "save_header"
  /\ \E r \in {"ok", "io_error"} :
       IF r = "ok"
       THEN /\ tmpfile' = [tmpfile EXCEPT !.rows = <<Header>>]
            /\ wpc' = "save_lock"
       ELSE /\ wpc' = "except"
            /\ UNCHANGED tmpfile
  /\ UNCHANGED <<aliased, drained, run_button, show_plot, save_i, target, lock,
                 snapshot, config, pc, idx, stop_event, locals, data_log,
                 gui_queue, calls, outputs, timing, serial, hist>>

\* with self.data_log_lock: (acquire), the iteration starts
SaveLock ==
  /\ wpc = "save_lock"
  /\ lock = "free"
  /\ lock' = "saver"
  /\ save_i' = 1
  /\ wpc' = "save_rows"
  /\ UNCHANGED <<aliased, drained, run_button, show_plot, tmpfile, target,
                 snapshot, config, pc, idx, stop_event, locals, data_log,
                 gui_queue, calls, outputs, timing, serial, hist>>

\* for entry in self.data_log: writer.writerow(entry); at the end of the list
\* the lock is released and the temporary file closed
SaveRow ==
  /\ wpc = "save_rows"
  /\ IF save_i <= Len(data_log)
     THEN \E r \in {"ok", "io_error"} :
            IF r = "ok"
            THEN /\ tmpfile' = [tmpfile EXCEPT
                                  !.rows = Append(@, Row(data_log[save_i]))]
                 /\ save_i' = save_i + 1
                 /\ UNCHANGED <<wpc, lock>>
            ELSE /\ wpc' = "except"
                 /\ lock' = "free"
                 /\ UNCHANGED <<tmpfile, save_i>>
     ELSE /\ wpc' = "save_replace"
          /\ lock' = "free"
          /\ UNCHANGED <<tmpfile, save_i>>
  /\ UNCHANGED <<aliased, drained, run_button, show_plot, target, snapshot,
                 config, pc, idx, stop_event, locals, data_log, gui_queue,
                 calls, outputs, timing, serial, hist>>

\* os.replace(tempname, file_path)
SaveReplace ==
  /\ wpc = "save_replace"
  /\ \E r \in {"ok", "io_error"} :
       IF r = "ok"
       THEN /\ target' = tmpfile
            /\ tmpfile' = NoFile
            /\ wpc' = "close"
       ELSE /\ wpc' = "except"
            /\ UNCHANGED <<tmpfile, target>>
  /\ UNCHANGED <<aliased, drained, run_button, show_plot, save_i, lock,
                 snapshot, config, pc, idx, stop_event, locals, data_log,
                 gui_queue, calls, outputs, timing, serial, hist>>

\* the process is killed while save_data_log runs
Kill ==
  /\ wpc \in SaveStates
  /\ wpc' = "killed"
  /\ UNCHANGED <<aliased, drained, run_button, show_plot, files, lock,
                 snapshot, config, pc, idx, stop_event, locals, data_log,
                 gui_queue, calls, outputs, timing, serial, hist>>

(***************************************************************************)
(* main.py: run_voltage_sweep and its worker voltage_sweep_thread.         *)
(***************************************************************************)
\* self.stop_event.clear(); thread.start()
run_voltage_sweep ==
  /\ wpc = "idle"
  /\ stop_event' = FALSE
  /\ wpc' = "started"
  /\ UNCHANGED <<aliased, drained, run_button, show_plot, files, lock,
                 snapshot, config, pc, idx, locals, data_log, gui_queue, calls,
                 outputs, timing, serial, hist>>

\* put button_state disabled; self.data_log = []; load_sweep_configuration,
\* which reports an entry that float() rejects and raises
ThreadStart ==
  /\ wpc = "started"
  /\ aliased' = FALSE
  /\ \E valid \in BOOLEAN :
       IF valid
       THEN /\ gui_queue' = Append(gui_queue, <<"button_state", "disabled">>)
            /\ wpc' = "connect"
       ELSE /\ gui_queue' = gui_queue \o << <<"button_state", "disabled">>,
                                           <<"error", "invalid_input">> >>
            /\ wpc' = "except"
  /\ UNCHANGED <<drained, run_button, show_plot, files, lock, snapshot, config,
                 pc, idx, stop_event, locals, data_log, calls, outputs, timing,
                 serial, hist>>

\* psu_controller.connect(); uart_controller.connect() when uart_control;
\* then sweep_manager.perform_sweep(config)
Connect ==
  /\ wpc = "connect"
  /\ \E r \in {"ok", "psu_error"} \cup
              (IF config.uart_control THEN {"uart_error"} ELSE {}) :
       /\ IF r = "ok"
          THEN wpc' = "sweep" /\ pc' = "validate"
          ELSE wpc' = "except" /\ UNCHANGED pc
       /\ hist' = [hist EXCEPT
                     !.psu = IF r = "psu_error" THEN "none" ELSE "open",
                     !.uart = IF r = "ok" /\ config.uart_control
                              THEN "open" ELSE "none"]
  /\ UNCHANGED <<aliased, drained, run_button, show_plot, files, lock,
                 snapshot, config, idx, stop_event, locals, data_log, gui_queue,
                 calls, outputs, timing, serial>>

\* perform_sweep returned: self.data_log = sweep_manager.data_log
SweepReturns ==
  /\ wpc = "sweep"
  /\ pc = "returned"
  /\ aliased' = TRUE
  /\ wpc' = "save_open"
  /\ UNCHANGED <<drained, run_button, show_plot, files, lock, snapshot, config,
                 pc, idx, stop_event, locals, data_log, gui_queue, calls,
                 outputs, timing, serial, hist>>

\* the connections after the close calls of lines 350-353, the first of
\* which to raise is r
Closed(r) ==
  [hist EXCEPT
     !.psu = IF r = "psu_close_error" THEN @ ELSE "closed",
     !.uart = IF r = "ok" /\ config.uart_control THEN "closed" ELSE @]

\* mutant: the info event is put only after a sweep without error event
CloseAndInfo_OnlyAfterCleanSweep ==
  /\ wpc = "close"
  /\ \E r \in {"ok", "psu_close_error"} \cup
              (IF config.uart_control THEN {"uart_close_error"} ELSE {}) :
       /\ IF r = "ok"
          THEN /\ gui_queue' =
                    IF \E i \in 1..Len(gui_queue) : gui_queue[i][1] = "error"
                    THEN gui_queue
                    ELSE Append(gui_queue, <<"info", "completed">>)
               /\ wpc' = "finally"
          ELSE /\ wpc' = "except"
               /\ UNCHANGED gui_queue
       /\ hist' = Closed(r)
  /\ UNCHANGED <<aliased, drained, run_button, show_plot, files, lock,
                 snapshot, config, pc, idx, stop_event, locals, data_log, calls,
                 outputs, timing, serial>>

\* psu_controller.close(); uart_controller.close(); put the info event
CloseAndInfo ==
  /\ wpc = "close"
  /\ \E r \in {"ok", "psu_close_error"} \cup
              (IF config.uart_control THEN {"uart_close_error"} ELSE {}) :
       /\ IF r = "ok"
          THEN /\ gui_queue' = Append(gui_queue, <<"info", "completed">>)
               /\ wpc' = "finally"
          ELSE /\ wpc' = "except"
               /\ UNCHANGED gui_queue
       /\ hist' = Closed(r)
  /\ UNCHANGED <<aliased, drained, run_button, show_plot, files, lock,
                 snapshot, config, pc, idx, stop_event, locals, data_log, calls,
                 outputs, timing, serial>>

\* mutant: the handler ends the thread, the finally clause is not run
Except_NoFinally ==
  /\ wpc = "except"
  /\ gui_queue' = Append(gui_queue, <<"error", "worker">>)
  /\ wpc' = "ended"
  /\ UNCHANGED <<aliased, drained, run_button, show_plot, files, lock,
                 snapshot, config, pc, idx, stop_event, locals, data_log, calls,
                 outputs, timing, serial, hist>>

\* mutant: the handler closes the connections that are open
Except_ClosesPorts ==
  /\ wpc = "except"
  /\ gui_queue' = Append(gui_queue, <<"error", "worker">>)
  /\ wpc' = "finally"
  /\ hist' = [hist EXCEPT !.psu = IF @ = "open" THEN "closed" ELSE @,
                          !.uart = IF @ = "open" THEN "closed" ELSE @]
  /\ UNCHANGED <<aliased, drained, run_button, show_plot, files, lock,
                 snapshot, config, pc, idx, stop_event, locals, data_log, calls,
                 outputs, timing, serial>>

\* except Exception as e: put ('error', "An error occurred: ...")
Except ==
  /\ wpc = "except"
  /\ gui_queue' = Append(gui_queue, <<"error", "worker">>)
  /\ wpc' = "finally"
  /\ UNCHANGED <<aliased, drained, run_button, show_plot, files, lock,
                 snapshot, config, pc, idx, stop_event, locals, data_log, calls,
                 outputs, timing, serial, hist>>

\* finally: put ('button_state', 'normal')
Finally ==
  /\ wpc = "finally"
  /\ gui_queue' = Append(gui_queue, <<"button_state", "normal">>)
  /\ wpc' = "ended"
  /\ UNCHANGED <<aliased, drained, run_button, show_plot, files, lock,
                 snapshot, config, pc, idx, stop_event, locals, data_log, calls,
                 outputs, timing, serial, hist>>

\* process_queue handles the next message; update_plot appends the data
\* point to self.data_log when the plot window is shown
process_queue ==
  /\ wpc \notin {"direct", "killed"}
  /\ drained < Len(gui_queue)
  /\ LET message == gui_queue[drained + 1]
     IN  /\ drained' = drained + 1
         /\ run_button' = IF message[1] = "button_state" THEN message[2]
                          ELSE run_button
         /\ data_log' = IF message[1] = "data_log" /\ show_plot /\ aliased
                        THEN Append(data_log, message[2])
                        ELSE data_log
  /\ UNCHANGED <<wpc, aliased, show_plot, files, lock, snapshot, config, pc,
                 idx, stop_event, locals, gui_queue, calls, outputs, timing,
                 serial, hist>>

WorkerThread ==
  \/ ThreadStart \/ Connect \/ SweepReturns \/ SaveOpen \/ SaveHeader
  \/ SaveLock \/ SaveRow \/ SaveReplace \/ CloseAndInfo \/ Except \/ Finally

\* the plot window closed and no data_log.csv yet, or the plot window open
\* and the data_log.csv of an earlier run in place
Desktops == {<<NoFile, FALSE>>, <<OldFile, TRUE>>}

\* the application as started: nothing run yet
AppInit ==
  /\ config \in SmallInputs
  /\ pc = "not_called"
  /\ idx = 1
  /\ stop_event = FALSE
  /\ current_voltage = 0
  /\ step_size = 0
  /\ total_steps = 0
  /\ current_step = 0
  /\ data_log = <<>>
  /\ gui_queue = <<>>
  /\ calls = <<>>
  /\ outputs = [c \in Channels |-> FALSE]
  /\ now = 0
  /\ sleepLeft = 0
  /\ waitCtx = "none"
  /\ expired = FALSE
  /\ rxbuf = <<>>
  /\ rxCount = 0
  /\ rxRead = <<>>
  /\ hist = FirstCall
  /\ lock = "free"
  /\ snapshot = <<>>
  /\ wpc = "idle"
  /\ aliased = FALSE
  /\ save_i = 1
  /\ tmpfile = NoFile
  /\ drained = 0
  /\ run_button = "normal"
  /\ \E d \in Desktops : target = d[1] /\ show_plot = d[2]

AppNext ==
  \/ run_voltage_sweep \/ WorkerThread \/ Worker \/ process_queue
  \/ Stop \/ Receive \/ TimePasses \/ Kill

AppSpec == AppInit /\ [][AppNext]_vars

\* the Run button is clicked once more: run_voltage_sweep has no test of its
\* own, it runs whenever the button is not disabled; it clears the token and
\* starts one more voltage_sweep_thread
run_voltage_sweep_again ==
  /\ wpc \notin {"direct", "idle", "killed"}
  /\ run_button = "normal"
  /\ hist.restart = "none"
  /\ stop_event' = FALSE
  /\ hist' = [hist EXCEPT !.restart = wpc]
  /\ UNCHANGED <<app, files, lock, snapshot, config, pc, idx, locals,
                 data_log, gui_queue, calls, outputs, timing, serial>>

\* the sweeps with fixed durations, the plot window closed
ClickInit == AppInit /\ ~config.uart_control /\ ~show_plot

\* the operator may click Run again
ClickSpec ==
  /\ ClickInit
  /\ [][\/ run_voltage_sweep \/ run_voltage_sweep_again \/ WorkerThread
        \/ FixedDurationWorker \/ process_queue \/ Stop]_vars

\* Liveness is checked on the power-cycled sweep, with either desktop, and
\* on the UART-gated one with the plot window closed.
AppLiveInit ==
  /\ AppInit
  /\ config.power_cycle \/ (config.uart_control /\ ~show_plot)

\* the interface thread keeps handling the queue
AppFairSpec == AppLiveInit /\ [][AppNext]_vars /\ WF_vars(process_queue)

(***************************************************************************)
(* Observations used by the properties.                                    *)
(***************************************************************************)
Last(q) == q[Len(q)]

\* the last three Command Port calls are output_off(1), (2), (3), all returned
OffSuffix ==
  /\ Len(calls) >= 3
  /\ \A i \in 1..3 : calls[Len(calls) - 3 + i] = Call("output_off", i, 0, "ok")

HasEvent(tag) == \E i \in 1..Len(gui_queue) : gui_queue[i][1] = tag

EventCount(tag) == Cardinality({i \in 1..Len(gui_queue) : gui_queue[i][1] = tag})

AllCallsOk == \A i \in 1..Len(calls) : calls[i].r = "ok"

KeysPresent == \A k \in AllKeys \ TimingKeys : k \in config.keys

AfterLoop == pc \in {"post", "put_final", "put_done", "returned"}

\* perform_sweep returned through the post-loop path, no cleanup call raising
ReturnedAfterLoop ==
  pc = "returned" /\ hist.exit # "none" /\ hist.failed = "none"

(***************************************************************************)
(* C1.  Whenever the main loop is exited (direction predicate false, token *)
(* set, or UART timeout break) control is in the post-loop: output_off is  *)
(* called on channels 1, 2, 3 in that order, and only after the three      *)
(* calls returned is progress=100 put, followed by done.  A cleanup call   *)
(* that raises is the port-failure case and ends the run with an error     *)
(* event.  After a validation abort there is no port call, no progress     *)
(* and no done event.                                                      *)
(***************************************************************************)
C1_PostLoopCleanup ==
  /\ hist.exit # "none" => AfterLoop
  /\ pc = "post" =>
       /\ hist.exit # "none"
       /\ Len(calls) >= idx - 1
       /\ \A i \in 1..(idx - 1) :
            calls[Len(calls) - (idx - 1) + i] = Call("output_off", i, 0, "ok")
  /\ (pc \in {"put_final", "put_done"} \/ ReturnedAfterLoop) =>
       OffSuffix /\ hist.exit # "none"
  /\ pc = "put_final" => ~HasEvent("done")
  /\ pc = "put_done" =>
       Last(gui_queue) = <<"progress", Percent>> /\ ~HasEvent("done")
  /\ ReturnedAfterLoop =>
       /\ Len(gui_queue) >= 2
       /\ gui_queue[Len(gui_queue) - 1] = <<"progress", Percent>>
       /\ Last(gui_queue) = <<"done">>
       /\ EventCount("done") = 1
  /\ HasEvent("done") => ReturnedAfterLoop
  /\ hist.failed = "validate" =>
       /\ calls = <<>>
       /\ ~HasEvent("progress")
       /\ ~HasEvent("done")
       /\ \A c \in Channels : ~outputs[c]

C1_Witness ==
  ReturnedAfterLoop /\ hist.exit = "timeout" /\ Len(data_log) = 2

(***************************************************************************)
(* C2.  A Command Port call that fails inside the main loop is reported    *)
(* as an error event and the post-loop cleanup still runs: output_off on   *)
(* channels 1, 2, 3 before perform_sweep returns, no output left on.       *)
(***************************************************************************)
C2_CleanupAfterLoopFailure ==
  (pc = "returned" /\ hist.failed = "loop") =>
     /\ HasEvent("error")
     /\ \A c \in Channels :
          \E i \in 1..Len(calls) : calls[i].op = "output_off" /\ calls[i].ch = c
     /\ \A c \in Channels : ~outputs[c]

(***************************************************************************)
(* C3.  UartGated without power cycling: if the Signal Port never delivers *)
(* "I" after a step (other tokens only, or no token at all), the engine    *)
(* eventually emits exactly one error event for the UART timeout, turns    *)
(* the three outputs off and emits progress=100 and done.  The wait can    *)
(* also end because "I" was accepted (pc = advance), the token was set or  *)
(* a port call failed.                                                     *)
(***************************************************************************)
GatedWait ==
  pc \in {"uart_head", "uart_read"} /\ waitCtx = "gated"

TimeoutAbortDone ==
  /\ ReturnedAfterLoop
  /\ hist.exit = "timeout"
  /\ EventCount("error") = 1
  /\ \A c \in Channels : ~outputs[c]

C3_UartTimeoutAbort ==
  GatedWait ~> (\/ TimeoutAbortDone
                \/ pc = "advance"
                \/ stop_event
                \/ hist.failed # "none")

(***************************************************************************)
(* C4.  The token set while the worker is inside a FixedDwell sleep: at    *)
(* most two polling slices end after that, the loop starts no further      *)
(* iteration, and the only Command Port calls made afterwards are the      *)
(* post-loop output_off calls (no set_voltage).                            *)
(***************************************************************************)
C4_CancelDuringDwell ==
  hist.stop.ctx = "dwell" =>
     /\ hist.stop.slices <= 2
     /\ current_step = hist.stop.step
     /\ pc \in {"sleep_head", "sleeping", "advance", "loop_head"} \/ AfterLoop
     /\ pc \in {"sleep_head", "sleeping", "advance", "loop_head"} =>
          Len(calls) = hist.stop.ncalls
     /\ hist.exit \in {"none", "stop", "condition"}
     /\ \A i \in (hist.stop.ncalls + 1)..Len(calls) :
          calls[i].op = "output_off" /\ calls[i].ch = i - hist.stop.ncalls

C4_Witness ==
  /\ hist.stop.ctx = "dwell"
  /\ hist.stop.slices = 1
  /\ sleepLeft = MaxDwell - 1
  /\ hist.exit = "stop"
  /\ pc = "returned"

(***************************************************************************)
(* C5.  start_voltage = end_voltage: the loop body runs exactly once (one  *)
(* set_voltage on the swept channel, one logged sample) for every step     *)
(* size, positive, negative or zero.                                       *)
(***************************************************************************)
LoopCalls == SubSeq(calls, 7, Len(calls))

IsSetVoltage(c) == c.op = "set_voltage"

LoopVoltages ==
  LET sv == SelectSeq(LoopCalls, IsSetVoltage)
  IN  [i \in 1..Len(sv) |-> sv[i].v]

LoggedVoltages == [i \in 1..Len(data_log) |-> data_log[i].voltage]

C5_SingleIteration ==
  (/\ KeysPresent
   /\ config.start_voltage = config.end_voltage
   /\ pc = "returned"
   /\ ~stop_event
   /\ AllCallsOk) =>
     /\ Len(data_log) = 1
     /\ LoopVoltages = <<config.start_voltage>>

(***************************************************************************)
(* C6.  Upward sweep given a negative step.                                *)
(***************************************************************************)
UpwardNegative ==
  /\ KeysPresent
  /\ config.start_voltage < config.end_voltage
  /\ config.step_size < 0

\* C6 as claimed: the step is normalized to its magnitude and the ascending
\* sequence start, start+|step|, ... is applied and logged
C6_UpwardNegativeNormalized ==
  (UpwardNegative /\ pc = "returned" /\ ~stop_event /\ AllCallsOk) =>
     /\ step_size = -config.step_size
     /\ Len(data_log) >= 1
     /\ LoggedVoltages = LoopVoltages
     /\ \A i \in 1..Len(data_log) :
          data_log[i].voltage = config.start_voltage - (i - 1) * config.step_size

\* C6 amended: an upward sweep given a negative step is rejected: one error
\* event (step_size must be positive), no port call, no sample, no progress
\* or done event
C6_UpwardNegativeRejected ==
  UpwardNegative =>
     /\ pc \in {"validate", "returned"}
     /\ calls = <<>>
     /\ data_log = <<>>
     /\ pc = "returned" => gui_queue = << <<"error", "step_sign">> >>

C6_Witness ==
  /\ UpwardNegative
  /\ config.start_voltage = 0 /\ config.end_voltage = 5
  /\ config.step_size = -1
  /\ pc = "returned"

(***************************************************************************)
(* C7.  Downward sweep given a positive step: the step is normalized to    *)
(* its negative magnitude and the descending sequence start, start-|step|, *)
(* ... down to end is applied and logged (5,4,3,2,1,0 for 5, 0, 1).        *)
(***************************************************************************)
DownwardPositive ==
  /\ KeysPresent
  /\ config.start_voltage > config.end_voltage
  /\ config.step_size > 0

IsProgress(e) == e[1] = "progress"

ProgressValues ==
  LET ps == SelectSeq(gui_queue, IsProgress)
  IN  [i \in 1..Len(ps) |-> ps[i][2]]

C8_ProgressMonotone ==
  (pc = "returned" /\ HasEvent("done") /\ ~HasEvent("error")) =>
     /\ \A i \in 1..(Len(ProgressValues) - 1) :
          ProgressValues[i] <= ProgressValues[i + 1]
     /\ Last(ProgressValues) = Percent

(***************************************************************************)
(* C9.  A configuration lacking start_voltage, end_voltage, step_size or   *)
(* channel: perform_sweep emits one error event for the missing parameter  *)
(* and returns without any Command Port or Signal Port call.               *)
(***************************************************************************)
RequiredMissing == \E i \in 1..4 : RequiredKeys[i] \notin config.keys

C9_MissingRequiredKey ==
  RequiredMissing =>
     /\ pc \in {"validate", "returned"}
     /\ calls = <<>>
     /\ Len(rxbuf) = rxCount
     /\ data_log = <<>>
     /\ pc = "returned" => gui_queue = << <<"error", "missing_key">> >>

C9_Witness ==
  /\ "channel" \notin config.keys
  /\ pc = "returned"
  /\ gui_queue = << <<"error", "missing_key">> >>

(***************************************************************************)
(* C10.  The timing value of the selected mode is missing (increment_time  *)
(* in FixedDwell, off_time or on_time in PowerCycle without UART).         *)
(***************************************************************************)
ModeTimingMissing ==
  /\ KeysPresent
  /\ ModeTimingKeys(config.power_cycle, config.uart_control) \ config.keys # {}

\* C10 as claimed: a configuration error event and no port call
C10_MissingTimingIsError ==
  (ModeTimingMissing /\ pc = "returned" /\ AllCallsOk) =>
     /\ HasEvent("error")
     /\ calls = <<>>

CtxKey(ctx) ==
  IF ctx = "dwell" THEN "increment_time"
  ELSE IF ctx = "off" THEN "off_time" ELSE "on_time"

\* C10 amended: a missing timing value is no error: the duration defaults
\* to 0, the wait it belongs to sleeps no slice, and the sweep runs with its
\* port calls
C10_MissingTimingDefaultsToZero ==
  ModeTimingMissing =>
     /\ \A i \in 1..Len(gui_queue) :
          gui_queue[i][1] = "error" =>
             gui_queue[i][2] \notin {"missing_key", "key_error"}
     /\ (pc \in {"sleep_head", "sleeping"} /\ CtxKey(waitCtx) \notin config.keys) =>
          pc = "sleep_head" /\ sleepLeft = 0
     /\ (ValidationError(config) = "none" /\ pc \notin {"validate", "preflight"}) =>
          Len(calls) >= 1
     /\ (pc = "returned" /\ AllCallsOk /\ ValidationError(config) = "none") =>
          ReturnedAfterLoop /\ Len(calls) >= 9

C10_Witness ==
  /\ ModeTimingMissing
  /\ "increment_time" \notin config.keys
  /\ ReturnedAfterLoop
  /\ ~stop_event
  /\ Len(data_log) = 3

(***************************************************************************)
(* C11.  A reader that copies the DataLog under data_log_lock while the    *)
(* worker appends: the reader holds the lock only while the worker is      *)
(* outside its append, every entry of the copy has the timestamp and the   *)
(* voltage of one loop iteration, and the copy is a prefix of the log at   *)
(* every later time, the final log included.                               *)
(***************************************************************************)
IsPrefix(a, b) == Len(a) <= Len(b) /\ \A i \in 1..Len(a) : a[i] = b[i]

C11_SnapshotUnderLock ==
  /\ lock = "reader" => pc # "log_locked"
  /\ lock = "worker" <=> pc = "log_locked"
  /\ IsPrefix(snapshot, data_log)
  /\ \A i \in 1..Len(snapshot) :
       /\ DOMAIN snapshot[i] = {"timestamp", "voltage"}
       /\ snapshot[i].voltage = LoopVoltages[i]
       /\ snapshot[i].timestamp <= now
       /\ i > 1 => snapshot[i - 1].timestamp <= snapshot[i].timestamp

C11_Witness ==
  /\ Len(snapshot) = 1
  /\ lock = "reader"
  /\ pc = "log"
  /\ Len(data_log) = 2

(***************************************************************************)
(* C12.  At every point of save_data_log, a kill or an I/O failure at any  *)
(* step included, data_log.csv is as it was before the call (absent or the *)
(* earlier file) or it is the complete file, the header and one row per    *)
(* entry written: rows go to the temporary file only, and the target       *)
(* changes in the one os.replace after the writing has finished.           *)
(***************************************************************************)
InitialTarget == IF show_plot THEN OldFile ELSE NoFile

CompleteFile(f) ==
  /\ f.exists
  /\ Len(f.rows) = save_i
  /\ f.rows[1] = Header
  /\ \A i \in 1..(save_i - 1) : f.rows[i + 1] = Row(data_log[i])
  /\ save_i - 1 >= current_step

C12_AtomicExport ==
  /\ target = InitialTarget \/ CompleteFile(target)
  /\ target # InitialTarget =>
       /\ wpc \in {"close", "except", "finally", "ended"}
       /\ tmpfile = NoFile
  /\ (wpc \in SaveStates \/ wpc = "killed") => target = InitialTarget
  /\ wpc \in {"save_header", "save_lock", "save_rows", "save_replace"} =>
       tmpfile.exists /\ Len(tmpfile.rows) <= save_i

C12_Witness ==
  /\ wpc = "killed"
  /\ tmpfile.exists
  /\ Len(tmpfile.rows) = 2
  /\ Len(data_log) = 3
  /\ target = OldFile

(***************************************************************************)
(* C13.  The export of a DataLog of N samples is the header row            *)
(* timestamp,voltage followed by N rows in log order, the text of each     *)
(* field being str() of the value; reading the rows back with float()      *)
(* gives the N samples again.  N is the length of the log while it is      *)
(* written; the case of entries added to the list by another thread during *)
(* the export is the subject of C18.                                       *)
(***************************************************************************)
C13_ExportRoundTrip ==
  /\ (wpc \in {"save_rows", "save_replace"}) =>
       /\ tmpfile.rows[1] = Header
       /\ Len(tmpfile.rows) = save_i
       /\ ReadBack(tmpfile.rows) = SubSeq(data_log, 1, save_i - 1)
  /\ (target # InitialTarget /\ Len(data_log) = current_step) =>
       /\ target.rows[1] = Header
       /\ Len(target.rows) = Len(data_log) + 1
       /\ \A i \in 1..Len(data_log) :
            target.rows[i + 1] = <<FloatStr(data_log[i].timestamp),
                                   FloatStr(data_log[i].voltage)>>
       /\ ReadBack(target.rows) = data_log

C13_Witness ==
  /\ wpc = "ended"
  /\ target # InitialTarget
  /\ Len(data_log) = 3
  /\ current_step = 3
  /\ data_log[3].timestamp = 2 * MaxDwell
  /\ ReadBack(target.rows) = data_log

(***************************************************************************)
(* C14.  No step of the engine (perform_sweep, wait_for_uart_signal,       *)
(* _sleep_with_stop_check, save_data_log) takes the cancellation token     *)
(* from set to unset: the only step that does is the caller's              *)
(* stop_event.clear() in run_voltage_sweep, before the worker is started.  *)
(***************************************************************************)
C14_EngineNeverClearsToken ==
  [][(stop_event /\ ~stop_event') => (wpc = "idle" /\ wpc' = "started")]_vars

C14_Witness ==
  /\ stop_event
  /\ hist.stop.ctx = "dwell"
  /\ hist.exit = "stop"
  /\ wpc = "ended"
  /\ target # InitialTarget

\* the caller does clear a token that was set before the run
C14_CallerCleared ==
  ~stop_event /\ wpc = "started" /\ hist.stop.ctx = "elsewhere"

(***************************************************************************)
(* C15.  The first event a sweep worker puts on the queue is               *)
(* button_state=disabled and, on every path on which the worker ends       *)
(* (success, invalid input, connection failure, sweep error, export        *)
(* failure), the last one is button_state=normal; once the worker has      *)
(* ended the interface eventually has handled every message and the Run    *)
(* button is in state normal.                                              *)
(***************************************************************************)
ButtonEventsInOrder ==
  /\ gui_queue # <<>> => gui_queue[1] = <<"button_state", "disabled">>
  /\ \A i \in 2..Len(gui_queue) :
       gui_queue[i] # <<"button_state", "disabled">>
  /\ \A i \in 1..Len(gui_queue) :
       gui_queue[i] = <<"button_state", "normal">> =>
          i = Len(gui_queue) /\ wpc = "ended"
  /\ wpc = "ended" => Last(gui_queue) = <<"button_state", "normal">>

InterfaceIdle == drained = Len(gui_queue) /\ run_button = "normal"

C15_ButtonStateRestored ==
  /\ []ButtonEventsInOrder
  /\ (wpc = "ended") ~> InterfaceIdle

\* the export failed: the worker ended through its except clause after
\* perform_sweep had returned, and the interface is back to not running
C15_Witness ==
  /\ wpc = "ended"
  /\ InterfaceIdle
  /\ pc = "returned"
  /\ HasEvent("done")
  /\ target = InitialTarget
  /\ gui_queue[Len(gui_queue) - 1] = <<"error", "worker">>

(***************************************************************************)
(* C16.  Failures inside perform_sweep.                                    *)
(***************************************************************************)
FailedCall == calls # <<>> /\ Last(calls).r # "ok"

InRange(v) == v # NaN /\ 0 <= v /\ v <= MaxVoltageSetting

C17_NoOutOfRangeWrite ==
  \A i \in 1..Len(calls) :
     (calls[i].op = "set_voltage" /\ ~InRange(calls[i].v)) =>
        calls[i].r = "range"

(***************************************************************************)
(* C18.  Once perform_sweep has returned, the engine's log holds one entry *)
(* per loop iteration and stays so through the end of save_data_log, also  *)
(* while the interface handles queued data_log events; the exported file   *)
(* has one row per loop iteration.                                         *)
(***************************************************************************)
Iterations == EventCount("data_log")

C18_LogFrozenAfterLoop ==
  /\ pc = "returned" => Len(data_log) = Iterations
  /\ (pc = "returned" /\ target # InitialTarget) =>
       Len(target.rows) = Iterations + 1

(***************************************************************************)
(* C19.  Pre-flight: set_voltage on channels 1, 2, 3 with their presets,   *)
(* then output_on on channels 1, 2, 3, in that order; the six calls have   *)
(* all returned before the first set_voltage of the loop on the swept      *)
(* channel, and the direction and step checks are over before the first    *)
(* of them.                                                                *)
(***************************************************************************)
PreflightCall(i) ==
  IF i <= 3 THEN [op |-> "set_voltage", ch |-> i, v |-> config.presets[i]]
  ELSE [op |-> "output_on", ch |-> i - 3, v |-> 0]

\* number of post-loop calls made so far
PostCalls ==
  IF hist.exit = "none" THEN 0
  ELSE IF pc = "post" THEN idx - 1
  ELSE IF hist.failed = "post" THEN idx
  ELSE 3

\* number of Command Port calls made by the loop body so far
LoopCallCount == IF Len(calls) <= 6 THEN 0 ELSE Len(calls) - 6 - PostCalls

C19_PreflightOrder ==
  /\ \A i \in 1..Len(calls) :
       i <= 6 => /\ calls[i].op = PreflightCall(i).op
                 /\ calls[i].ch = PreflightCall(i).ch
                 /\ calls[i].v = PreflightCall(i).v
  /\ Len(calls) >= 7 => \A i \in 1..6 : calls[i].r = "ok"
  /\ LoopCallCount >= 1 =>
       /\ calls[7].op = "set_voltage"
       /\ calls[7].ch = config.channel
       /\ calls[7].v = config.start_voltage
  /\ calls # <<>> =>
       /\ ValidationError(config) = "none"
       /\ pc # "validate"
       /\ step_size = NormalizedStep(config)
  /\ pc = "preflight" => Len(calls) = idx - 1
  /\ pc \notin {"validate", "preflight", "returned"} => Len(calls) >= 6

C19_Witness ==
  /\ Len(calls) = 7
  /\ calls[7] = Call("set_voltage", 2, 5, "ok")
  /\ config.channel = 2
  /\ pc = "log"

(***************************************************************************)
(* C20.  PowerCycle mode: every loop iteration issues on the swept channel *)
(* set_voltage, output_off, the off-phase wait, output_on, the on-phase    *)
(* wait, in this order; a UART timeout in the off-phase wait breaks the    *)
(* loop before output_on is issued.                                        *)
(***************************************************************************)
PowerCycleMode == KeysPresent /\ config.power_cycle

CycleOp(j) ==
  IF j % 3 = 1 THEN "set_voltage"
  ELSE IF j % 3 = 2 THEN "output_off" ELSE "output_on"

InWait == pc \in {"sleep_head", "sleeping", "uart_head", "uart_read"}

C20_PowerCycleOrder ==
  PowerCycleMode =>
     /\ \A j \in 1..LoopCallCount :
          /\ calls[6 + j].op = CycleOp(j)
          /\ calls[6 + j].ch = config.channel
          /\ j < LoopCallCount => calls[6 + j].r = "ok"
     /\ pc = "loop_head" => LoopCallCount = 3 * current_step
     /\ (InWait /\ waitCtx = "off") =>
          /\ LoopCallCount % 3 = 2
          /\ Last(calls) = Call("output_off", config.channel, 0, "ok")
     /\ pc = "output_on" => waitCtx = "off" /\ LoopCallCount % 3 = 2
     /\ (InWait /\ waitCtx = "on") =>
          /\ LoopCallCount % 3 = 0
          /\ Last(calls) = Call("output_on", config.channel, 0, "ok")
     /\ pc = "advance" => waitCtx = "on" /\ LoopCallCount = 3 * current_step
     /\ ~(InWait /\ waitCtx \in {"dwell", "gated"})
     /\ (hist.exit = "timeout" /\ waitCtx = "off") =>
          /\ LoopCallCount % 3 = 2
          /\ calls[6 + LoopCallCount].op = "output_off"
          /\ \A i \in (6 + LoopCallCount + 1)..Len(calls) :
               calls[i].op = "output_off"

C20_Witness ==
  /\ PowerCycleMode
  /\ ~config.uart_control
  /\ config.on_time = MaxDwell
  /\ current_step = 2
  /\ pc = "advance"
  /\ LoopCallCount = 6

\* a UART timeout in the off-phase wait is reached as well
C20_OffPhaseTimeout ==
  /\ PowerCycleMode
  /\ ReturnedAfterLoop
  /\ hist.exit = "timeout"
  /\ waitCtx = "off"

(***************************************************************************)
(* C21.  One step-completion strategy per configuration: power cycling if  *)
(* power_cycle is set, else the UART gate if uart_control is set, else the *)
(* fixed dwell; every wait the worker is in, and the wait an iteration     *)
(* ends with, belongs to that strategy.  With uart_control set (a Signal   *)
(* Port attached) every wait is a UART wait, both phases of a power cycle  *)
(* included, and no slice is slept whatever off_time, on_time and          *)
(* increment_time are.                                                     *)
(***************************************************************************)
StrategyWaits ==
  IF config.power_cycle THEN {"off", "on"}
  ELSE IF config.uart_control THEN {"gated"} ELSE {"dwell"}

LastWait ==
  IF config.power_cycle THEN "on"
  ELSE IF config.uart_control THEN "gated" ELSE "dwell"

C21_OneStrategy ==
  KeysPresent =>
     /\ InWait => waitCtx \in StrategyWaits
     /\ waitCtx # "none" => waitCtx \in StrategyWaits
     /\ pc = "advance" => waitCtx = LastWait
     /\ pc \in {"output_off", "output_on"} => config.power_cycle
     /\ pc \in {"sleep_head", "sleeping"} => ~config.uart_control
     /\ pc \in {"uart_head", "uart_read"} => config.uart_control
     /\ config.uart_control =>
          /\ now = 0
          /\ sleepLeft = 0
          /\ \A i \in 1..Len(data_log) : data_log[i].timestamp = 0

\* the on-phase wait of a power cycle with uart_control and durations given
C21_Witness ==
  /\ config.power_cycle
  /\ config.uart_control
  /\ config.off_time = MaxDwell
  /\ "on_time" \in config.keys
  /\ config.on_time = MaxDwell
  /\ pc = "uart_head"
  /\ waitCtx = "on"
  /\ current_step = 1
  /\ rxCount = MaxRx
  /\ rxbuf = <<>>

(***************************************************************************)
(* C22.  wait_for_uart_signal returns on the first token delivered by the  *)
(* Signal Port that is one of the expected signals.  A token that is not   *)
(* expected, and the None the port returns once the cancellation token is  *)
(* set, is discarded: the worker is back at the head of the polling loop   *)
(* and nothing of the engine's state has changed.                          *)
(***************************************************************************)
SameWait(a, b) == a.ctx = b.ctx /\ a.step = b.step

IsExpected(r) == r.token \in Expected(r.ctx)

C22_Returns ==
  /\ \A i \in 1..Len(rxRead) :
       IsExpected(rxRead[i]) =>
          \A j \in (i + 1)..Len(rxRead) : ~SameWait(rxRead[i], rxRead[j])
  /\ pc \in {"uart_head", "uart_read"} =>
       \A i \in 1..Len(rxRead) :
          SameWait(rxRead[i], Returned("")) => ~IsExpected(rxRead[i])
  /\ (pc \in {"advance", "output_on"} /\ config.uart_control /\ ~stop_event) =>
       /\ rxRead # <<>>
       /\ SameWait(Last(rxRead), Returned(""))
       /\ IsExpected(Last(rxRead))
  /\ Cardinality({i \in 1..Len(rxRead) : rxRead[i].token # "None"})
       = rxCount - Len(rxbuf)

C22_Poll ==
  rxRead' # rxRead =>
     /\ pc = "uart_read"
     /\ rxRead' = Append(rxRead, Last(rxRead'))
     /\ Last(rxRead') =
          Returned(IF stop_event THEN "None" ELSE Decode(Head(rxbuf)))
     /\ ~stop_event => rxbuf' = Tail(rxbuf)
     /\ IF IsExpected(Last(rxRead'))
        THEN pc' = (IF waitCtx = "off" THEN "output_on" ELSE "advance")
        ELSE /\ pc' = "uart_head"
             /\ UNCHANGED <<locals, data_log, gui_queue, calls, outputs, idx,
                            stop_event, timing, hist, lock>>

C22_FirstExpectedToken == []C22_Returns /\ [][C22_Poll]_vars

\* a token that is not expected was discarded, the next one ended the wait
C22_Witness ==
  /\ pc = "advance"
  /\ ~stop_event
  /\ rxRead = << [ctx |-> "gated", step |-> 1, token |-> "O"],
                 [ctx |-> "gated", step |-> 1, token |-> "I"] >>

(***************************************************************************)
(* C23.  The cancellation token set while the worker is inside a UART wait *)
(* (at the head of the polling loop or blocked in the Signal Port), the    *)
(* timeout having elapsed or not: the wait ends without a timeout, no      *)
(* token is taken from the Signal Port any more, no UART timeout error is  *)
(* put on the queue, no set_voltage is issued afterwards, and the worker   *)
(* goes on to the post-loop: output_off on channels 1, 2, 3, progress=100, *)
(* done.  An error event can only come from a Command Port call that       *)
(* failed after the wait.                                                  *)
(***************************************************************************)
StoppedInUartWait == hist.stop.uart

AfterUartWait ==
  {"uart_head", "uart_read", "output_on", "advance", "loop_head"}

C23_CancelDuringUartWait ==
  StoppedInUartWait =>
     /\ stop_event
     /\ hist.exit \in {"none", "stop", "condition"}
     /\ pc \in AfterUartWait \/ AfterLoop
     /\ current_step = hist.stop.step
     /\ Len(data_log) = hist.stop.step
     /\ \A i \in 1..Len(gui_queue) : gui_queue[i] # <<"error", "uart_timeout">>
     /\ AllCallsOk => ~HasEvent("error")
     /\ \A i \in (hist.stop.ncalls + 1)..Len(calls) :
          calls[i].op # "set_voltage"
     /\ \A i \in 1..Len(rxRead) :
          (rxRead[i].token = "None") =>
             i = Len(rxRead) \/ rxRead[i + 1].token = "None"
     /\ pc = "loop_head" => hist.exit = "none"
     /\ (pc = "returned" /\ AllCallsOk) =>
          /\ ReturnedAfterLoop
          /\ OffSuffix
          /\ \A c \in Channels : ~outputs[c]
          /\ gui_queue[Len(gui_queue) - 1] = <<"progress", Percent>>
          /\ Last(gui_queue) = <<"done">>

\* set in the gate of the first of three steps, after the timeout had elapsed
C23_Witness ==
  /\ hist.stop.uart
  /\ hist.stop.ctx = "gated"
  /\ hist.stop.expired
  /\ hist.stop.step = 1
  /\ config.start_voltage = 0
  /\ config.end_voltage = 5
  /\ config.step_size = 2
  /\ rxRead # <<>>
  /\ Last(rxRead).token = "None"
  /\ ReturnedAfterLoop
  /\ hist.exit = "stop"

(***************************************************************************)
(* C24.  While perform_sweep runs the DataLog changes only by an append at *)
(* its end.  After k loop set_voltage calls that returned, the log holds   *)
(* the k applied voltages in order (k - 1 of them between the return of    *)
(* the k-th call and its append), with timestamps that do not decrease;    *)
(* the k-th data_log event carries the k-th log entry, and it lies before  *)
(* the k-th progress event and after the one before.                       *)
(***************************************************************************)
IsAppliedVoltage(c) == c.op = "set_voltage" /\ c.r = "ok"

AppliedVoltages ==
  LET sv == SelectSeq(LoopCalls, IsAppliedVoltage)
  IN  [i \in 1..Len(sv) |-> sv[i].v]

\* the position in the queue of the k-th event with this tag, 0 if none
EventPos(tag, k) ==
  LET at == {i \in 1..Len(gui_queue) :
               /\ gui_queue[i][1] = tag
               /\ Cardinality({j \in 1..i : gui_queue[j][1] = tag}) = k}
  IN  IF at = {} THEN 0 ELSE CHOOSE i \in at : TRUE

C24_Samples ==
  /\ Len(data_log) =
       Len(AppliedVoltages) - (IF pc \in {"log", "log_locked"} THEN 1 ELSE 0)
  /\ LoggedVoltages = SubSeq(AppliedVoltages, 1, Len(data_log))
  /\ \A i \in 2..Len(data_log) :
       data_log[i - 1].timestamp <= data_log[i].timestamp
  /\ EventCount("data_log") =
       Len(data_log) - (IF pc = "put_data" THEN 1 ELSE 0)
  /\ \A k \in 1..EventCount("data_log") :
       /\ gui_queue[EventPos("data_log", k)] = <<"data_log", data_log[k]>>
       /\ EventPos("progress", k) = 0 => (k = Len(data_log) /\ pc = "put_progress")
       /\ EventPos("progress", k) # 0 =>
            EventPos("data_log", k) < EventPos("progress", k)
       /\ k > 1 => EventPos("progress", k - 1) < EventPos("data_log", k)

C24_Grows ==
  data_log' # data_log =>
     /\ pc = "log_locked"
     /\ data_log' = Append(data_log, Last(data_log'))

C24_AppendOnlyInOrder == []C24_Samples /\ [][C24_Grows]_vars

C24_Witness ==
  /\ pc = "returned"
  /\ LoggedVoltages = <<0, 2, 4>>
  /\ AppliedVoltages = <<0, 2, 4>>
  /\ data_log[3].timestamp = 2 * MaxDwell
  /\ gui_queue[5] = <<"data_log", data_log[3]>>

(***************************************************************************)
(* C25.  data_log_lock is held by the worker thread exactly in the append  *)
(* of one sample and in the row loop of save_data_log.  It is not held in  *)
(* any state in which the worker is inside a Command Port call, a UART     *)
(* wait, a sleep or a queue put.                                           *)
(***************************************************************************)
InPortCall == pc \in {"preflight", "set_voltage", "output_off", "output_on", "post"}

InQueuePut ==
  \/ pc \in {"put_data", "put_progress", "put_final", "put_done"}
  \/ wpc \in {"started", "close", "except", "finally"}

C25_LockScope ==
  /\ lock \in {"free", "worker", "saver"}
  /\ lock = "worker" <=> pc = "log_locked"
  /\ wpc = "save_rows" => lock = "saver"
  /\ lock = "saver" => wpc \in {"save_rows", "killed"}
  /\ (InPortCall \/ InWait \/ InQueuePut) => lock = "free"
  /\ wpc \in {"sweep", "direct"} => lock # "saver"

C25_Witness ==
  /\ wpc = "save_rows"
  /\ lock = "saver"
  /\ save_i = 2
  /\ Len(data_log) = 3
  /\ tmpfile.rows = <<Header, Row(data_log[1])>>

(***************************************************************************)
(* C26.  The k-th voltage the loop applies to the swept channel (counting  *)
(* from 0) is start_voltage + k * step, step being the direction           *)
(* normalized step, and lies between start_voltage and end_voltage         *)
(* inclusive; no voltage beyond end_voltage is applied.                    *)
(***************************************************************************)
Between(v, a, b) == (a <= v /\ v <= b) \/ (b <= v /\ v <= a)

C26_VoltageSequence ==
  KeysPresent =>
     \A i \in 1..Len(LoopVoltages) :
        /\ LoopVoltages[i] =
             config.start_voltage + (i - 1) * NormalizedStep(config)
        /\ Between(LoopVoltages[i], config.start_voltage, config.end_voltage)

\* the part of C26 that the loop condition does guarantee
C26_WithinRange ==
  KeysPresent =>
     \A i \in 1..Len(LoopVoltages) :
        Between(LoopVoltages[i], config.start_voltage, config.end_voltage)

(***************************************************************************)
(* C27.  In exact arithmetic: total_steps is                               *)
(* floor(|end - start| / |step|) + 1, current_step never exceeds it, a     *)
(* sweep whose loop ends by its condition (not cancelled, no timeout, no   *)
(* failed call) has run exactly total_steps iterations, and every progress *)
(* value put on the queue is floor(100 * k / total_steps) for the k-th     *)
(* iteration, an integer from 0 to 100.                                    *)
(***************************************************************************)
ExactTotal ==
  Abs(config.end_voltage - config.start_voltage) \div Abs(config.step_size) + 1

C27_ExactStepCount ==
  (config.arith = "exact" /\ KeysPresent /\ pc # "validate"
     /\ ValidationError(config) = "none") =>
     /\ total_steps = ExactTotal
     /\ current_step <= total_steps
     /\ Len(data_log) <= total_steps
     /\ (ReturnedAfterLoop /\ hist.exit = "condition") =>
          /\ current_step = total_steps
          /\ Len(data_log) = total_steps
     /\ \A i \in 1..Len(ProgressValues) :
          /\ ProgressValues[i] \in 0..Percent
          /\ i <= current_step =>
               ProgressValues[i] = (i * Percent) \div total_steps

\* 0, 11, 22 of a sweep to 32: three steps in exact arithmetic
C27_Witness ==
  /\ config.arith = "exact"
  /\ config.start_voltage = 0
  /\ config.end_voltage = 32
  /\ config.step_size = 11
  /\ ReturnedAfterLoop
  /\ hist.exit = "condition"
  /\ LoggedVoltages = <<0, 11, 22>>
  /\ ProgressValues = <<33, 66, 100, 100>>

(***************************************************************************)
(* C28.  FixedDwell and fixed-duration PowerCycle, the worker kept         *)
(* running and every port call returning or raising: perform_sweep         *)
(* returns.  A zero step size ends in an error event or in one iteration.  *)
(***************************************************************************)
ZeroStepEnds ==
  (KeysPresent /\ config.step_size = 0 /\ pc = "returned") =>
     HasEvent("error") \/ Len(data_log) = 1

C28_SameVoltageAgain ==
  /\ config.step_size # 0
  /\ current_step = MaxSteps
  /\ pc = "loop_head"
  /\ voltage_condition(current_voltage)
  /\ \A i \in 1..Len(LoopVoltages) : LoopVoltages[i] = config.start_voltage

(***************************************************************************)
(* C29.  Whenever perform_sweep is called the DataLog is empty, and when   *)
(* it has returned the log holds the samples of that call only, one per    *)
(* iteration of the call; so also for a second call on the same engine.    *)
(***************************************************************************)
C29_LogEmptyAtCall ==
  /\ pc = "validate" => data_log = <<>>
  /\ pc = "returned" => Len(data_log) = current_step

\* the same for the first call only
C29_FirstCallStartsEmpty ==
  hist.run = 1 =>
     /\ pc = "validate" => data_log = <<>>
     /\ pc = "returned" => Len(data_log) = current_step

(***************************************************************************)
(* C30.  While a voltage_sweep_thread is running, from its start to its    *)
(* last queue put, no further run_voltage_sweep starts a worker or clears  *)
(* the cancellation token; so also while the button_state=disabled event   *)
(* of the running worker is still in the queue.                            *)
(***************************************************************************)
C30_SingleWorker == hist.restart \in {"none", "ended"}

\* the second click came while the first worker was inside perform_sweep and
\* took away a token that had been set
C30_TokenLost ==
  /\ hist.restart = "sweep"
  /\ hist.stop.ctx # "none"
  /\ ~stop_event
  /\ pc = "sleeping"

(***************************************************************************)
(* C31.  The token already set when perform_sweep is called with a valid   *)
(* configuration: the three presets are applied and the three outputs      *)
(* energized, the loop body is not run (no sample logged, no data event),  *)
(* then the three outputs are de-energized and progress=100 and done are   *)
(* put, every port call returning.                                         *)
(***************************************************************************)
TokenSetAtCall == hist.stop.ctx = "call"

CallsOfEmptySweep ==
  [i \in 1..9 |->
     IF i <= 6
     THEN Call(PreflightCall(i).op, PreflightCall(i).ch, PreflightCall(i).v, "ok")
     ELSE Call("output_off", i - 6, 0, "ok")]

C31_TokenSetAtCall ==
  TokenSetAtCall =>
    /\ stop_event
    /\ data_log = <<>>
    /\ ~HasEvent("data_log")
    /\ current_step = 0
    /\ pc \in {"validate", "preflight", "loop_head", "post", "put_final",
               "put_done", "returned"}
    /\ pc \in {"loop_head", "post"} => \A i \in 1..6 : calls[i] = CallsOfEmptySweep[i]
    /\ pc = "loop_head" => \A c \in Channels : outputs[c]
    /\ (pc = "returned" /\ ValidationError(config) = "none" /\ AllCallsOk) =>
         /\ calls = CallsOfEmptySweep
         /\ \A c \in Channels : ~outputs[c]
         /\ gui_queue = << <<"progress", Percent>>, <<"done">> >>

C31_Witness ==
  /\ TokenSetAtCall
  /\ pc = "returned"
  /\ calls = CallsOfEmptySweep
  /\ gui_queue = << <<"progress", Percent>>, <<"done">> >>
  /\ config.start_voltage < config.end_voltage

(***************************************************************************)
(* C32.  A pre-flight port call that fails: perform_sweep returns with     *)
(* exactly one error event and no done event, no output_off call is made,  *)
(* and the outputs energized before the failing call are still on.         *)
(***************************************************************************)
\* channels whose output_on returned before the failing pre-flight call idx
EnergizedBefore(i) == {c \in Channels : c + 3 < i}

C32_PreflightFailure ==
  /\ hist.failed = "preflight" =>
       /\ pc = "returned"
       /\ Len(calls) = idx
       /\ Last(calls).r # "ok"
       /\ \A i \in 1..(idx - 1) : calls[i].r = "ok"
       /\ \A i \in 1..Len(calls) : calls[i].op # "output_off"
       /\ gui_queue = << <<"error", Last(calls).r>> >>
       /\ EventCount("error") = 1
       /\ ~HasEvent("done")
       /\ \A c \in Channels : outputs[c] <=> c \in EnergizedBefore(idx)
  /\ (pc = "returned" /\ Len(calls) \in 1..6 /\ Last(calls).r # "ok") =>
       hist.failed = "preflight"

C32_Witness ==
  /\ hist.failed = "preflight"
  /\ pc = "returned"
  /\ Len(calls) = 5
  /\ calls[4] = Call("output_on", 1, 0, "ok")
  /\ calls[5] = Call("output_on", 2, 0, "transport")
  /\ outputs = [c \in Channels |-> c = 1]

(***************************************************************************)
(* C33.  The Signal Port returns at most one received character per call,  *)
(* so no return of it is the token "ON": the off-phase wait is left only   *)
(* by the UART timeout or by the token being set.  A sweep with both       *)
(* power_cycle and uart_control logs at most one sample and, its port      *)
(* calls returning, leaves the loop only by UART timeout or cancellation.  *)
(***************************************************************************)
\* what uart.read().decode().strip() can be: one character, or none
OneCharTokens == {Decode(b) : b \in RxBytes}

CycleWithUart == PowerCycleMode /\ UseUart

C33_OffPhaseNeverSatisfied ==
  /\ \A i \in 1..Len(rxRead) :
       /\ rxRead[i].token \in OneCharTokens \cup {"None"}
       /\ rxRead[i].ctx = "off" => rxRead[i].token \notin Expected("off")
  /\ CycleWithUart =>
       /\ Len(data_log) <= 1
       /\ current_step <= 1
       /\ EventCount("data_log") <= 1
       /\ pc \in {"output_on", "advance"} => stop_event
       /\ waitCtx = "on" => stop_event
       /\ hist.exit # "none" =>
            \/ hist.exit = "timeout" /\ HasEvent("error")
            \/ stop_event
       /\ (pc = "returned" /\ hist.failed = "none") =>
            hist.exit = "timeout" \/ stop_event

C33_Witness ==
  /\ CycleWithUart
  /\ pc = "uart_head"
  /\ waitCtx = "off"
  /\ ~stop_event
  /\ Len(rxRead) = MaxRx
  /\ rxRead[1].token = "O"
  /\ rxRead[1].ctx = "off"
  /\ Len(data_log) = 1

(***************************************************************************)
(* C34.  The token set while the engine waits in the power-cycle off       *)
(* phase (the off_time sleep or the UART wait for "ON"): output_on is      *)
(* still called on the swept channel, once, after the token was set and    *)
(* before the post-loop output_off calls; when perform_sweep has returned  *)
(* through the post-loop the last output command on each channel is        *)
(* output_off.                                                             *)
(***************************************************************************)
StoppedInOffPhase == hist.stop.ctx = "off"

IsOutputCommand(c) == c.op \in {"output_on", "output_off"}

\* the calls made since the token was set
CallsSinceStop == SubSeq(calls, hist.stop.ncalls + 1, Len(calls))

\* the last output command issued to channel ch, "none" if there is none
LastOutputOp(ch) ==
  LET issued == {i \in 1..Len(calls) : IsOutputCommand(calls[i]) /\ calls[i].ch = ch}
  IN  IF issued = {} THEN "none"
      ELSE calls[CHOOSE i \in issued : \A j \in issued : j <= i].op

C34_OnAfterCancelInOffPhase ==
  StoppedInOffPhase =>
    /\ stop_event
    /\ PowerCycleMode
    /\ hist.stop.ncalls >= 8
    /\ calls[hist.stop.ncalls] = Call("output_off", config.channel, 0, "ok")
    /\ pc \in {"sleep_head", "sleeping", "uart_head", "uart_read"} /\ waitCtx = "off"
         => CallsSinceStop = <<>>
    /\ CallsSinceStop # <<>> =>
         /\ CallsSinceStop[1].op = "output_on"
         /\ CallsSinceStop[1].ch = config.channel
    /\ Len(CallsSinceStop) >= 2 => CallsSinceStop[1].r = "ok"
    /\ \A i \in 2..Len(CallsSinceStop) :
         CallsSinceStop[i] = Call("output_off", i - 1, 0, CallsSinceStop[i].r)
    /\ pc \in {"advance", "loop_head", "post", "put_final", "put_done"} =>
         CallsSinceStop # <<>>
    /\ (\/ pc \in {"sleep_head", "sleeping", "uart_head", "uart_read"}
           /\ waitCtx = "on"
        \/ pc \in {"advance", "loop_head"}) =>
         outputs[config.channel]
    /\ hist.exit \in {"none", "stop", "condition"}
    /\ ReturnedAfterLoop =>
         /\ Len(CallsSinceStop) = 4
         /\ \A ch \in Channels : LastOutputOp(ch) = "output_off" /\ ~outputs[ch]

C34_Witness ==
  /\ StoppedInOffPhase
  /\ ~hist.stop.uart
  /\ ReturnedAfterLoop
  /\ config.channel = 2
  /\ CallsSinceStop = << Call("output_on", 2, 0, "ok"),
                        Call("output_off", 1, 0, "ok"),
                        Call("output_off", 2, 0, "ok"),
                        Call("output_off", 3, 0, "ok") >>

\* the same after a cancel in the UART wait for "ON", the timeout elapsed
C34_UartOffPhase ==
  /\ StoppedInOffPhase
  /\ hist.stop.uart
  /\ hist.stop.expired
  /\ ReturnedAfterLoop
  /\ Len(CallsSinceStop) = 4

(***************************************************************************)
(* C35.  The worker puts the info event "Voltage sweep completed           *)
(* successfully." whenever perform_sweep has returned, the export has      *)
(* succeeded and the connections were closed, whether or not the engine    *)
(* put an error event (configuration error, UART timeout, port failure)    *)
(* or the sweep was cancelled: an error event can be followed by the info  *)
(* event.                                                                  *)
(***************************************************************************)
InfoEvent == <<"info", "completed">>

ExportSucceeded ==
  /\ pc = "returned"
  /\ tmpfile = NoFile
  /\ target.exists
  /\ target.rows[1] = Header

PortsClosed ==
  /\ hist.psu = "closed"
  /\ config.uart_control => hist.uart = "closed"

\* an event with tag first is followed, later in the queue, by the info event
FollowedByInfo(kind) ==
  \E i, j \in 1..Len(gui_queue) :
    i < j /\ gui_queue[i] = <<"error", kind>> /\ gui_queue[j] = InfoEvent

C35_InfoAfterExport ==
  /\ wpc = "close" => ExportSucceeded /\ ~HasEvent("info")
  /\ hist.psu = "closed" => ExportSucceeded
  /\ (wpc \in {"finally", "ended"} /\ PortsClosed) =>
       /\ EventCount("info") = 1
       /\ gui_queue[Len(gui_queue) - (IF wpc = "ended" THEN 1 ELSE 0)] = InfoEvent
  /\ HasEvent("info") =>
       /\ PortsClosed
       /\ wpc \in {"finally", "ended"}
       /\ ~HasEvent("error") \/ hist.failed # "none" \/ hist.exit = "timeout"

C35_Witness ==
  /\ wpc = "ended"
  /\ hist.exit = "timeout"
  /\ FollowedByInfo("uart_timeout")
  /\ drained = Len(gui_queue)

\* the same after a configuration error, a failed port call, a cancelled sweep
C35_ConfigErrorThenInfo ==
  wpc = "ended" /\ hist.failed = "validate" /\ FollowedByInfo("zero_division")

C35_PortFailureThenInfo ==
  wpc = "ended" /\ hist.failed = "loop" /\ FollowedByInfo("transport")

C35_CancelledThenInfo ==
  /\ wpc = "ended"
  /\ stop_event
  /\ hist.exit = "stop"
  /\ hist.stop.ctx = "dwell"
  /\ HasEvent("info")

(***************************************************************************)
(* C36.  close() of the Command Port and of the Signal Port is called only *)
(* after the export has succeeded.  When the Signal Port connection or     *)
(* the export fails after the Command Port was connected, the worker ends  *)
(* with the error event and button_state=normal, the Command Port still    *)
(* open.                                                                   *)
(***************************************************************************)
WorkerFailed ==
  /\ Len(gui_queue) >= 2
  /\ gui_queue[Len(gui_queue) - 1] = <<"error", "worker">>
  /\ Last(gui_queue) = <<"button_state", "normal">>
  /\ ~HasEvent("info")

SignalPortConnectFailed ==
  /\ config.uart_control
  /\ hist.psu = "open"
  /\ pc = "not_called"
  /\ wpc \in {"except", "finally", "ended"}

ExportFailed ==
  /\ pc = "returned"
  /\ target = InitialTarget
  /\ wpc \in {"except", "finally", "ended"}

C36_CloseOnlyOnSuccessPath ==
  /\ (hist.psu = "closed" \/ hist.uart = "closed") =>
       /\ pc = "returned"
       /\ target # InitialTarget
       /\ tmpfile = NoFile
       /\ wpc \in {"except", "finally", "ended"}
       /\ hist.psu = "closed"
  /\ wpc \in {"sweep", "close"} \cup SaveStates =>
       /\ hist.psu = "open"
       /\ hist.uart = IF config.uart_control THEN "open" ELSE "none"
  /\ SignalPortConnectFailed => hist.uart = "none"
  /\ ExportFailed =>
       /\ hist.psu = "open"
       /\ hist.uart = IF config.uart_control THEN "open" ELSE "none"
  /\ (wpc = "ended" /\ (SignalPortConnectFailed \/ ExportFailed)) =>
       WorkerFailed /\ hist.psu = "open"

C36_Witness ==
  /\ wpc = "ended"
  /\ ExportFailed
  /\ hist.psu = "open"
  /\ hist.uart = "open"
  /\ HasEvent("done")
  /\ WorkerFailed

\* the Signal Port connection failed, the Command Port connected
C36_SignalPortFailed ==
  wpc = "ended" /\ SignalPortConnectFailed /\ WorkerFailed /\ calls = <<>>

(***************************************************************************)
(* C37.  wait_for_uart_signal looks at the elapsed time only before a      *)
(* Signal Port read.  A read that returns an expected token is accepted    *)
(* and the wait returns normally, also when the deadline passed during the *)
(* read; the timeout is raised only at the loop head, the deadline passed  *)
(* and the token not set.                                                  *)
(***************************************************************************)
TimeoutRaised ==
  /\ gui_queue' = Append(gui_queue, <<"error", "uart_timeout">>)
  /\ hist'.exit = "timeout"

ReadReturnsExpected ==
  /\ pc = "uart_read"
  /\ Len(rxRead') = Len(rxRead) + 1
  /\ Last(rxRead').token \in Expected(waitCtx)

C37_DeadlineCheckedBeforeRead ==
  [][/\ TimeoutRaised =>
          /\ pc = "uart_head"
          /\ expired
          /\ ~stop_event
          /\ pc' = "post"
     /\ ReadReturnsExpected =>
          /\ pc' = (IF waitCtx = "off" THEN "output_on" ELSE "advance")
          /\ gui_queue' = gui_queue
          /\ hist' = hist
     /\ (pc = "uart_read" /\ pc' # "uart_read") =>
          /\ ~TimeoutRaised
          /\ pc' = "uart_head" \/ ReadReturnsExpected
     /\ (pc = "uart_head" /\ pc' = "uart_read") => ~expired /\ ~stop_event
    ]_vars

\* an expected token was returned by a read that began before the deadline
\* and ended after it: the wait is over, no timeout was reported
C37_Witness ==
  /\ pc = "advance"
  /\ waitCtx = "gated"
  /\ expired
  /\ ~stop_event
  /\ hist.stop.ctx = "none"
  /\ rxRead # <<>>
  /\ Last(rxRead) = [ctx |-> "gated", step |-> current_step, token |-> "I"]
  /\ ~HasEvent("error")

====
